---- MODULE Spec2Model ----
(***************************************************************************)
(* A model of lib/ansible/modules/cloud/amazon/ec2_group.py: the rule      *)
(* normalizer (rules_expand_ports, rules_expand_sources,                   *)
(* deduplicate_rules_args), the canonical Rule tuple and its               *)
(* (de)serialization, the target resolver and the convergence driver main; *)
(* and of lib/ansible/modules/cloud/amazon/ec2_instance.py: main,          *)
(* ensure_instance_state and change_instance_state (specification          *)
(* SpecInstance).                                                          *)
(*                                                                         *)
(* Python values are encoded so that values Python holds to be different   *)
(* stay different:                                                         *)
(*   a port value    [ty |-> "int"|"str"|"none", v |-> sequence of Nat]    *)
(*                   80 is <<80>> of ty "int", '80' is <<80>> of ty "str", *)
(*                   '80-90' is <<80, 90>> of ty "str", None is <<>>       *)
(*   a protocol      [ty |-> "int"|"str", s |-> text]  (-1 vs '-1')        *)
(*   a source value  [list |-> BOOLEAN, items |-> sequence of text]        *)
(*   a rule dict     a function from its keys to values                    *)
(*   rules (param)   [none |-> BOOLEAN, list |-> sequence of rule dicts]   *)
(*   an optional     <<>> for None / a missing key, <<x>> for a value x    *)
(***************************************************************************)
EXTENDS Integers, Sequences, FiniteSets, TLC

VARIABLES
    params,   \* module.params of the invocation (fixed across the runs)
    remote,   \* the provider's state: the managed group and the other groups
              \* (the instances, for ec2_instance)
    pc,       \* position of main
    run,      \* 1 for the first invocation, 2 for the re-run with same params
    calls,    \* remote calls issued so far by this invocation, in order
    loc,      \* main's local variables
    result,   \* how the invocation ended (exit_json / fail_json)
    nrm       \* state of the normalizer specification

vars == <<params, remote, pc, run, calls, loc, result, nrm>>

-----------------------------------------------------------------------------
(* Bounds of the model *)

\* longest rules / rules_egress argument handed to main
MaxRules == 1
\* longest rule list handed to the normalizer on its own
MaxNormRules == 2

-----------------------------------------------------------------------------
(* Python values *)

PInt(n) == [ty |-> "int", v |-> <<n>>]
PStr(n) == [ty |-> "str", v |-> <<n>>]
PRange(a, b) == [ty |-> "str", v |-> <<a, b>>]
PNone == [ty |-> "none", v |-> <<>>]

ProtoStr(s) == [ty |-> "str", s |-> s]
ProtoInt(s) == [ty |-> "int", s |-> s]

Scalar(s) == [list |-> FALSE, items |-> <<s>>]
ListOf(q) == [list |-> TRUE, items |-> q]

PyNone == [none |-> TRUE, list |-> <<>>]
PyList(q) == [none |-> FALSE, list |-> q]

\* sum(list of lists, [])
RECURSIVE Flatten(_)
Flatten(qq) ==
    IF qq = <<>> THEN <<>> ELSE Head(qq) \o Flatten(Tail(qq))

\* [f(x) for x in q]
MapSeq(q, f(_)) == [i \in 1..Len(q) |-> f(q[i])]

\* set(q)
Range(q) == {q[i] : i \in 1..Len(q)}

\* dict without key k (del d[k] / d.pop(k, None))
DictDel(d, ks) == [k \in DOMAIN d \ ks |-> d[k]]

\* d[k] = v
DictSet(d, k, v) == (k :> v) @@ d

-----------------------------------------------------------------------------
(* Rule normalizer *)

\* int(x) of a port value: defined for ints and for digit strings
IntOk(p) == p.ty \in {"int", "str"} /\ Len(p.v) = 1

\* isinstance(port, str)
IsStr(p) == p.ty = "str"

\* '-' in port
HasDash(p) == Len(p.v) > 1

\* port.split('-', 1): the text before the first dash, and the rest
SplitDash(p) == <<[ty |-> "str", v |-> <<Head(p.v)>>], [ty |-> "str", v |-> Tail(p.v)]>>

\* ports_expand, with a range 'a-b' left unsplit
ports_expand_unsplit(ports) ==
    MapSeq(ports, LAMBDA port : <<port, port>>)

ports_expand(ports) ==
    MapSeq(ports, LAMBDA port :
        IF ~IsStr(port) THEN <<port, port>>
        ELSE IF HasDash(port) THEN SplitDash(port)
        ELSE <<port, port>>)

rule_expand_ports(rule) ==
    IF "ports" \notin DOMAIN rule THEN <<rule>>
    ELSE LET ports == rule["ports"].items
         IN MapSeq(ports_expand(ports), LAMBDA from_to :
                DictSet(DictSet(DictDel(rule, {"ports"}),
                                "from_port", from_to[1]), "to_port", from_to[2]))

rules_expand_ports(rules) ==
    IF rules.none \/ rules.list = <<>> THEN rules
    ELSE PyList(Flatten(MapSeq(rules.list, rule_expand_ports)))

source_types_all == <<"cidr_ip", "cidr_ipv6", "group_id", "group_name", "ip_prefix">>

rule_expand_source(rule, source_type) ==
    LET sources == rule[source_type].items
    IN MapSeq(sources, LAMBDA source :
           DictSet(DictDel(rule, Range(source_types_all)), source_type, Scalar(source)))

rule_expand_sources(rule) ==
    LET source_types == SelectSeq(source_types_all, LAMBDA stype : stype \in DOMAIN rule)
    IN Flatten(MapSeq(source_types, LAMBDA stype : rule_expand_source(rule, stype)))

rules_expand_sources(rules) ==
    IF rules.none \/ rules.list = <<>> THEN rules
    ELSE PyList(Flatten(MapSeq(rules.list, rule_expand_sources)))

\* json.dumps(value): a number, a string, null and a list print differently
JsonValue(k, val) ==
    IF k \in {"from_port", "to_port"}
        THEN [kind |-> IF val.ty = "int" THEN "number" ELSE IF val.ty = "str" THEN "string" ELSE "null",
              text |-> val.v]
    ELSE IF k = "proto"
        THEN [kind |-> IF val.ty = "int" THEN "number" ELSE "string", text |-> val.s]
    ELSE IF k = "ports"
        THEN [kind |-> IF val.list THEN "list" ELSE "scalar",
              text |-> MapSeq(val.items, LAMBDA p : <<p.ty, p.v>>)]
    ELSE IF k \in Range(source_types_all)
        THEN [kind |-> IF val.list THEN "list" ELSE "string", text |-> val.items]
    ELSE [kind |-> "string", text |-> val]

\* json.dumps(r, sort_keys=True): one entry per key, in key order
json_dumps(r) == [k \in DOMAIN r |-> JsonValue(k, r[k])]

\* deduplicate_rules_args, with the unique rules in reverse order
deduplicate_rules_args_reversed(rules) ==
    IF rules.none THEN rules
    ELSE LET q == rules.list
             key(i) == json_dumps(q[i])
             idx == [i \in 1..Len(q) |-> Len(q) + 1 - i]
             lasts == SelectSeq(idx, LAMBDA i : \A j \in (i + 1)..Len(q) : key(j) # key(i))
         IN PyList(MapSeq(lasts, LAMBDA i : q[i]))

\* list(dict(zip(keys, rules)).values()): a key keeps the place of its first
\* occurrence and the value of its last one
deduplicate_rules_args(rules) ==
    IF rules.none THEN rules
    ELSE LET q == rules.list
             key(i) == json_dumps(q[i])
             idx == [i \in 1..Len(q) |-> i]
             firsts == SelectSeq(idx, LAMBDA i : \A j \in 1..(i - 1) : key(j) # key(i))
             last(i) == CHOOSE j \in 1..Len(q) :
                            /\ key(j) = key(i)
                            /\ \A k \in (j + 1)..Len(q) : key(k) # key(i)
         IN PyList(MapSeq(firsts, LAMBDA i : q[last(i)]))

\* main, lines 841-842
Normalize(rules) ==
    deduplicate_rules_args(rules_expand_sources(rules_expand_ports(rules)))

-----------------------------------------------------------------------------
(* The canonical Rule and its serialization *)

None == <<>>
Some(x) == <<x>>

\* namedtuple('Rule', ['port_range', 'protocol', 'target', 'target_type', 'description'])
\* target is None (<<>>), an address or id (<<t>>) or a foreign triple (<<owner, id, name>>)
Rule(port_range, protocol, target, target_type, description) ==
    [port_range |-> port_range, protocol |-> protocol, target |-> target,
     target_type |-> target_type, description |-> description]

valid_targets == {"ipv4", "ipv6", "group", "ip_prefix"}

rule_cmp(a, b) ==
    /\ a.port_range = b.port_range
    /\ a.protocol = b.protocol
    /\ a.target = b.target
    /\ a.target_type = b.target_type

\* to_text(permission['IpProtocol'])
to_text(proto) == proto.s

\* A permission with one grant, as sent to and stored by the provider:
\* FromPort / ToPort are <<>> when the key is absent, else <<n>>
Perm(FromPort, ToPort, IpProtocol, key, target, Description) ==
    [FromPort |-> FromPort, ToPort |-> ToPort, IpProtocol |-> IpProtocol,
     key |-> key, target |-> target, Description |-> Description]

\* fix_port_and_protocol on one port key: None deletes the key, else int()
FixPort(p) == IF p.ty = "none" THEN None ELSE p.v

fix_port_and_protocol(ToPort, FromPort, IpProtocol, key, target, Description) ==
    Perm(FixPort(FromPort), FixPort(ToPort), to_text(IpProtocol), key, target, Description)

\* rule.description is put in the grant only when truthy
TruthyDesc(d) == IF d = None \/ d = Some("") THEN None ELSE d

TargetKey(target_type) ==
    CASE target_type = "ipv4" -> "IpRanges"
      [] target_type = "ipv6" -> "Ipv6Ranges"
      [] target_type = "group" -> "UserIdGroupPairs"
      [] target_type = "ip_prefix" -> "PrefixListIds"

\* to_permission raises: NotImplementedError for a foreign group (a tuple
\* target), ValueError for an unknown target type, and int() of a value that
\* is no number
ToPermissionRaises(rule) ==
    \/ rule.target_type = "group" /\ Len(rule.target) = 3
    \/ rule.target_type \notin valid_targets
    \/ \E i \in 1..2 : rule.port_range[i].ty # "none" /\ ~IntOk(rule.port_range[i])

to_permission(rule) ==
    fix_port_and_protocol(rule.port_range[1], rule.port_range[2], rule.protocol,
                          TargetKey(rule.target_type),
                          IF rule.target = None THEN "None" ELSE rule.target[1],
                          TruthyDesc(rule.description))

rules_to_permissions(rules) == {to_permission(r) : r \in rules}

\* list(rule_from_group_permission(perm)), as a set: group grants yield nothing
rule_from_group_permission(perm) ==
    IF perm.key \in {"IpRanges", "Ipv6Ranges", "PrefixListIds"}
    THEN LET ports == IF perm.FromPort = None /\ perm.ToPort = None
                      THEN <<PNone, PNone>>
                      ELSE <<PInt(perm.FromPort[1]), PInt(perm.ToPort[1])>>
             target_type == CASE perm.key = "IpRanges" -> "ipv4"
                              [] perm.key = "Ipv6Ranges" -> "ipv6"
                              [] perm.key = "PrefixListIds" -> "ip_prefix"
         IN {Rule(ports, ProtoStr(perm.IpProtocol), Some(perm.target), target_type,
                  perm.Description)}
    ELSE {}

\* sum([list(rule_from_group_permission(p)) for p in perms], [])
RulesOfPermissions(perms) == UNION {rule_from_group_permission(p) : p \in perms}

-----------------------------------------------------------------------------
(* Target resolver *)

VALID_PARAMS == {"cidr_ip", "cidr_ipv6", "ip_prefix", "group_id", "group_name",
                 "group_desc", "proto", "from_port", "to_port", "rule_desc"}

\* validate_rule: TRUE when it calls fail_json
validate_rule_fails(rule) ==
    \/ \E k \in DOMAIN rule : k \notin VALID_PARAMS
    \/ "group_id" \in DOMAIN rule /\ "cidr_ip" \in DOMAIN rule
    \/ "group_name" \in DOMAIN rule /\ "cidr_ip" \in DOMAIN rule
    \/ "group_id" \in DOMAIN rule /\ "cidr_ipv6" \in DOMAIN rule
    \/ "group_name" \in DOMAIN rule /\ "cidr_ipv6" \in DOMAIN rule
    \/ "cidr_ip" \in DOMAIN rule /\ "cidr_ipv6" \in DOMAIN rule
    \/ "group_id" \in DOMAIN rule /\ "group_name" \in DOMAIN rule

\* re.match(FOREIGN_SECURITY_GROUP_REGEX, group_id).groups() over the ids of
\* the model: <<>> when the id does not match
ForeignGroups(group_id) ==
    IF group_id = "123/sg-9/ext" THEN <<"123", "sg-9", "ext">> ELSE <<>>

\* validate_ip: the network of a CIDR that has host bits set
validate_ip(cidr_ip) ==
    IF cidr_ip = "10.1.1.1/8" THEN "10.0.0.0/8" ELSE cidr_ip

\* The id the provider gives a group it creates under this name
NewGroupId(group_name) ==
    CASE group_name = "dep" -> "sg-dep"
      [] group_name = "web" -> "sg-web"
      [] OTHER -> "sg-new"

\* The first value of a source key after expansion
Src(rule, k) == rule[k].items[1]

\* rule.get('group_desc', '').strip() is empty
NoGroupDesc(rule) == "group_desc" \notin DOMAIN rule \/ rule["group_desc"] = ""

\* get_target_from_rule. groups maps ids and names to [GroupId, VpcId];
\* group is main's group dict. The result says how the call ends:
\*   fail: fail_json;  create: the create_security_group call it issues
\*   (<<>> for none);  otherwise (target_type, target, target_group_created).
get_target_from_rule(check_mode, rule, name, group, groups) ==
    LET ret(ttype, target, created) ==
            [fail |-> FALSE, create |-> None, target_type |-> ttype,
             target |-> target, target_group_created |-> created, groups |-> groups]
        hasVpc(g) == g.VpcId # None
    IN
    IF validate_rule_fails(rule)
        THEN [ret("", None, FALSE) EXCEPT !.fail = TRUE]
    ELSE IF "group_id" \in DOMAIN rule /\ ForeignGroups(Src(rule, "group_id")) # <<>>
        THEN LET m == ForeignGroups(Src(rule, "group_id"))
                 group_instance == [GroupId |-> m[2], VpcId |-> None]
             IN [ret("group", m, FALSE) EXCEPT
                    !.groups = (m[2] :> group_instance) @@ (m[3] :> group_instance) @@ groups]
    ELSE IF "group_id" \in DOMAIN rule
        THEN ret("group", Some(Src(rule, "group_id")), FALSE)
    ELSE IF "group_name" \in DOMAIN rule
        THEN LET group_name == Src(rule, "group_name")
                 self == [GroupId |-> group.GroupId, VpcId |-> group.VpcId]
             IN IF group_name = name
                    THEN [ret("group", Some(group.GroupId), FALSE) EXCEPT
                            !.groups = (group.GroupId :> self) @@ (group_name :> self) @@ groups]
                ELSE IF /\ group_name \in DOMAIN groups
                        /\ hasVpc(group) /\ hasVpc(groups[group_name])
                    THEN ret("group", Some(groups[group_name].GroupId), FALSE)
                ELSE IF /\ group_name \in DOMAIN groups
                        /\ ~(hasVpc(group) \/ hasVpc(groups[group_name]))
                    THEN ret("group", Some(groups[group_name].GroupId), FALSE)
                ELSE IF NoGroupDesc(rule)
                    THEN [ret("", None, FALSE) EXCEPT !.fail = TRUE]
                ELSE IF ~check_mode
                    THEN \* auto_group is the create response: it carries GroupId only
                         LET gid == NewGroupId(group_name)
                             auto_group == [GroupId |-> gid, VpcId |-> None]
                         IN [ret("group", Some(gid), TRUE) EXCEPT
                                !.create = Some(group_name),
                                !.groups = (gid :> auto_group) @@ (group_name :> auto_group) @@ groups]
                ELSE ret("group", None, TRUE)
    ELSE IF "cidr_ip" \in DOMAIN rule
        THEN ret("ipv4", Some(validate_ip(Src(rule, "cidr_ip"))), FALSE)
    ELSE IF "cidr_ipv6" \in DOMAIN rule
        THEN ret("ipv6", Some(validate_ip(Src(rule, "cidr_ipv6"))), FALSE)
    ELSE IF "ip_prefix" \in DOMAIN rule
        THEN ret("ip_prefix", Some(Src(rule, "ip_prefix")), FALSE)
    ELSE [ret("", None, FALSE) EXCEPT !.fail = TRUE]

\* compare_aws_tags(current_tags, tags, purge_tags)
compare_aws_tags(current_tags, tags, purge_tags) ==
    LET to_delete == IF purge_tags THEN DOMAIN current_tags \ DOMAIN tags ELSE {}
        modify == {k \in DOMAIN tags : k \notin DOMAIN current_tags \/ current_tags[k] # tags[k]}
    IN [tags_need_modify |-> [k \in modify |-> tags[k]], tags_to_delete |-> to_delete]

-----------------------------------------------------------------------------
(* The provider *)

\* A remote call: its operation, the permissions it carries, the group names
\* or tag keys it carries, the tags it carries
Call(op, perms, names, tags) == [op |-> op, perms |-> perms, names |-> names, tags |-> tags]

Describe == Call("describe_security_groups", {}, {}, <<>>)

MutatingOps == {"create_security_group", "delete_security_group", "delete_tags",
                "create_tags", "update_security_group_rule_descriptions_ingress",
                "update_security_group_rule_descriptions_egress",
                "revoke_security_group_ingress", "revoke_security_group_egress",
                "authorize_security_group_ingress", "authorize_security_group_egress"}

\* The provider identifies a rule by everything but its description
SameGrant(p, q) ==
    /\ p.FromPort = q.FromPort /\ p.ToPort = q.ToPort /\ p.IpProtocol = q.IpProtocol
    /\ p.key = q.key /\ p.target = q.target

Revoked(stored, batch) == {p \in stored : ~\E b \in batch : SameGrant(p, b)}

Authorized(stored, batch) ==
    stored \cup {b \in batch : ~\E p \in stored : SameGrant(p, b)}

Described(stored, batch) ==
    {IF \E b \in batch : SameGrant(p, b)
        THEN [p EXCEPT !.Description = (CHOOSE b \in batch : SameGrant(p, b)).Description]
        ELSE p : p \in stored}

\* The egress rule the provider adds to every group it creates in a VPC
DefaultEgress == Perm(None, None, "-1", "IpRanges", "0.0.0.0/0", None)

EmptyTags == <<>>

\* The provider's state after it has applied call c, for the managed group
\* created with the given name, description and VPC
RemoteApply(rem, c, name, description, vpc_id) ==
    LET g == rem.group
        withGroup(h) == [rem EXCEPT !.group = h]
    IN CASE c.op = "create_security_group" /\ c.names = {name} ->
                withGroup([exists |-> TRUE, GroupId |-> NewGroupId(name), GroupName |-> name,
                           Description |-> description, VpcId |-> vpc_id, Tags |-> EmptyTags,
                           IpPermissions |-> {},
                           IpPermissionsEgress |-> IF vpc_id # None THEN {DefaultEgress} ELSE {}])
         [] c.op = "create_security_group" /\ c.names # {name} ->
                [rem EXCEPT !.others = @ \cup
                    {[GroupId |-> NewGroupId(n), GroupName |-> n, VpcId |-> vpc_id] : n \in c.names}]
         [] c.op = "delete_security_group" ->
                withGroup([g EXCEPT !.exists = FALSE, !.Tags = EmptyTags, !.IpPermissions = {},
                                    !.IpPermissionsEgress = {}])
         [] c.op = "delete_tags" ->
                withGroup([g EXCEPT !.Tags = [k \in DOMAIN g.Tags \ c.names |-> g.Tags[k]]])
         [] c.op = "create_tags" ->
                withGroup([g EXCEPT !.Tags = c.tags @@ g.Tags])
         [] c.op = "update_security_group_rule_descriptions_ingress" ->
                withGroup([g EXCEPT !.IpPermissions = Described(@, c.perms)])
         [] c.op = "update_security_group_rule_descriptions_egress" ->
                withGroup([g EXCEPT !.IpPermissionsEgress = Described(@, c.perms)])
         [] c.op = "revoke_security_group_ingress" ->
                withGroup([g EXCEPT !.IpPermissions = Revoked(@, c.perms)])
         [] c.op = "revoke_security_group_egress" ->
                withGroup([g EXCEPT !.IpPermissionsEgress = Revoked(@, c.perms)])
         [] c.op = "authorize_security_group_ingress" ->
                withGroup([g EXCEPT !.IpPermissions = Authorized(@, c.perms)])
         [] c.op = "authorize_security_group_egress" ->
                withGroup([g EXCEPT !.IpPermissionsEgress = Authorized(@, c.perms)])
         [] OTHER -> rem

RECURSIVE RemoteApplyAll(_, _, _, _, _)
RemoteApplyAll(rem, cs, name, description, vpc_id) ==
    IF cs = <<>> THEN rem
    ELSE RemoteApplyAll(RemoteApply(rem, Head(cs), name, description, vpc_id),
                        Tail(cs), name, description, vpc_id)

\* main's group dict: what describe_security_groups tells of the managed group
NoGroup == [none |-> TRUE, GroupId |-> "", VpcId |-> None, Description |-> "",
            Tags |-> EmptyTags, IpPermissions |-> {}, IpPermissionsEgress |-> {}]

GroupDict(g) == [none |-> FALSE, GroupId |-> g.GroupId, VpcId |-> g.VpcId,
                 Description |-> g.Description, Tags |-> g.Tags,
                 IpPermissions |-> g.IpPermissions,
                 IpPermissionsEgress |-> g.IpPermissionsEgress]

NoGroups == <<>>

\* group_exists: the results it may return, each the matching group and the
\* dict of all groups by id and by name. Of two groups with one name the dict
\* keeps the one the provider lists last, which is the provider's choice.
group_exists(rem) ==
    IF rem.group.exists
    THEN LET all == {[GroupId |-> rem.group.GroupId, GroupName |-> rem.group.GroupName,
                      VpcId |-> rem.group.VpcId]} \cup rem.others
             keys == {g.GroupId : g \in all} \cup {g.GroupName : g \in all}
         IN {[group |-> GroupDict(rem.group),
              groups |-> [k \in keys |-> [GroupId |-> of[k].GroupId, VpcId |-> of[k].VpcId]]] :
                of \in {f \in [keys -> all] :
                           \A k \in keys : f[k].GroupId = k \/ f[k].GroupName = k}}
    ELSE {[group |-> NoGroup, groups |-> NoGroups]}

-----------------------------------------------------------------------------
(* The diff engine: main, lines 894-895 and 920-970, over main's locals l *)

current_ingress(l) == RulesOfPermissions(l.group.IpPermissions)

\* lines 895 and 920-926: the default allow-all rule counts as current when
\* rules_egress is not given and the group is in a VPC
current_egress(l) ==
    LET cur == RulesOfPermissions(l.group.IpPermissionsEgress)
    IN IF params.rules_egress.none /\ l.group.VpcId # None
       THEN cur \cup {Rule(<<PNone, PNone>>, ProtoStr("-1"), Some("0.0.0.0/0"), "ipv4", None)}
       ELSE cur

present_ingress(l) == Range(l.named_tuple_ingress_list) \cup current_ingress(l)
present_egress(l) == Range(l.named_tuple_egress_list) \cup current_egress(l)

\* revoke_ingress, had it left purge_rules out of account
revoke_ingress_always(l) ==
    rules_to_permissions(present_ingress(l) \ Range(l.named_tuple_ingress_list))

\* lines 932-935
revoke_ingress(l) ==
    IF params.purge_rules
    THEN rules_to_permissions(present_ingress(l) \ Range(l.named_tuple_ingress_list))
    ELSE {}

\* lines 936-942
revoke_egress(l) ==
    IF params.purge_rules_egress
    THEN IF params.rules_egress.none
         THEN rules_to_permissions({r \in present_egress(l) \ Range(l.named_tuple_egress_list) :
                                        r.target # Some("0.0.0.0/0")})
         ELSE rules_to_permissions(present_egress(l) \ Range(l.named_tuple_egress_list))
    ELSE {}

\* lines 945-956: the desired rules that equal a present rule but for the description
NeedsDescUpdate(named, present) ==
    {r \in Range(named) : \E p \in present : rule_cmp(r, p) /\ r.description # p.description}

ingress_needs_desc_update(l) == NeedsDescUpdate(l.named_tuple_ingress_list, present_ingress(l))
egress_needs_desc_update(l) == NeedsDescUpdate(l.named_tuple_egress_list, present_egress(l))

\* named_tuple_*_list once the rules that need a description update are removed
ingress_after_update(l) == Range(l.named_tuple_ingress_list) \ ingress_needs_desc_update(l)
egress_after_update(l) == Range(l.named_tuple_egress_list) \ egress_needs_desc_update(l)

\* lines 968-970
new_ingress(l) == ingress_after_update(l) \ current_ingress(l)
new_egress(l) == egress_after_update(l) \ current_egress(l)

-----------------------------------------------------------------------------
(* The convergence driver: main *)

NoResult == [kind |-> "none", why |-> "", changed |-> FALSE, group |-> NoGroup]

\* rule_key, i, current_rules and reported are the locals of
\* wait_for_rule_propagation and what its fail_json reports
InitLoc == [rules |-> PyNone, rules_egress |-> PyNone, group |-> NoGroup, groups |-> NoGroups,
            group_created_new |-> FALSE, changed |-> FALSE, idx |-> 1,
            named_tuple_ingress_list |-> <<>>, named_tuple_egress_list |-> <<>>,
            rule_key |-> "", i |-> 0, current_rules |-> {}, reported |-> {}]

NormOff == [stage |-> "off", rules |-> PyNone, once |-> PyNone, twice |-> PyNone]

\* The rules the loop of lines 897-918 visits, each with its direction
Work(l) ==
    MapSeq(l.rules.list, LAMBDA r : [rule_type |-> "in", rule |-> r])
        \o MapSeq(l.rules_egress.list, LAMBDA r : [rule_type |-> "out", rule |-> r])

\* module.fail_json / an uncaught exception
Fail(why) ==
    /\ pc' = "done"
    /\ result' = [kind |-> "fail", why |-> why, changed |-> FALSE, group |-> NoGroup]

\* module.exit_json(changed=changed, **security_group)
Exit(changed, group) ==
    /\ pc' = "done"
    /\ result' = [kind |-> "exit", why |-> "", changed |-> changed, group |-> group]

\* The log of calls keeps one entry for a run of consecutive describe calls
\* (create_security_group may repeat its describe call without limit)
Described1(log) ==
    IF log # <<>> /\ log[Len(log)] = Describe THEN log ELSE Append(log, Describe)

\* Issue, had the call that returned an error been issued once more
IssueRetried(cs, failAt) ==
    /\ failAt \in 0..Len(cs)
    /\ calls' = calls \o (IF failAt = 0 THEN cs
                          ELSE Append(SubSeq(cs, 1, failAt), cs[failAt]))
    /\ remote' = RemoteApplyAll(remote, IF failAt = 0 THEN cs ELSE SubSeq(cs, 1, failAt - 1),
                                params.name, params.description, params.vpc_id)

\* The calls of cs are issued in order; call number failAt (0: none) returns
\* an error, which ends the invocation; the provider applies the others.
Issue(cs, failAt) ==
    /\ failAt \in 0..Len(cs)
    /\ calls' = calls \o (IF failAt = 0 THEN cs ELSE SubSeq(cs, 1, failAt))
    /\ remote' = RemoteApplyAll(remote, IF failAt = 0 THEN cs ELSE SubSeq(cs, 1, failAt - 1),
                                params.name, params.description, params.vpc_id)

\* lines 837-857: the arguments are normalized, then group_exists (the client
\* has update_security_group_rule_descriptions_egress, so line 855 passes)
Start ==
    /\ pc = "start"
    /\ IF params.state = "present" /\ params.description = ""
       THEN /\ Fail("validation")
            /\ UNCHANGED <<calls, loc, remote>>
       ELSE \E found \in group_exists(remote) :
               /\ calls' = Described1(calls)
               /\ loc' = [loc EXCEPT !.rules = Normalize(params.rules),
                                     !.rules_egress = Normalize(params.rules_egress),
                                     !.group = found.group,
                                     !.groups = found.groups,
                                     !.group_created_new = ~found.group.none]
               /\ pc' = "ensure"
               /\ UNCHANGED <<remote, result>>
    /\ UNCHANGED <<params, run, nrm>>

\* lines 860-873: state=absent
EnsureAbsent ==
    /\ pc = "ensure" /\ params.state = "absent"
    /\ IF loc.group.none
       THEN /\ pc' = "final"
            /\ UNCHANGED <<calls, remote, loc, result>>
       ELSE \E failAt \in 0..1 :
            LET cs == IF params.check_mode THEN <<>>
                      ELSE <<Call("delete_security_group", {}, {loc.group.GroupId}, <<>>)>>
            IN /\ Issue(cs, failAt)
               /\ IF failAt = 0
                  THEN /\ loc' = [loc EXCEPT !.group = NoGroup, !.changed = TRUE]
                       /\ pc' = "final"
                       /\ UNCHANGED result
                  ELSE /\ Fail("remote")
                       /\ UNCHANGED loc
    /\ UNCHANGED <<params, run, nrm>>

\* OnDescriptionMismatch, had main deleted and re-created the group to give it
\* the requested description
OnDescriptionMismatchRecreate(l) ==
    IF l.group.Description # params.description
    THEN <<Call("delete_security_group", {}, {l.group.GroupId}, <<>>),
           Call("create_security_group", {}, {params.name}, <<>>)>>
    ELSE <<>>

\* lines 879-881: the calls main issues for an existing group whose
\* description differs from the requested one: none, it only warns
OnDescriptionMismatch(l) == <<>>

\* lines 876-885 and create_security_group up to its create call
EnsurePresent ==
    /\ pc = "ensure" /\ params.state = "present"
    /\ IF ~loc.group.none
       THEN \* existing group
            /\ Issue(OnDescriptionMismatch(loc), 0)
            /\ pc' = "tags"
            /\ UNCHANGED <<loc, result>>
       ELSE IF params.check_mode
       THEN \* create_security_group returns None
            /\ loc' = [loc EXCEPT !.changed = TRUE]
            /\ pc' = "tags"
            /\ UNCHANGED <<calls, remote, result>>
       ELSE \E failAt \in 0..1 :
            /\ Issue(<<Call("create_security_group", {}, {params.name}, <<>>)>>, failAt)
            /\ IF failAt = 0
               THEN /\ pc' = "create_sleep"
                    /\ UNCHANGED <<loc, result>>
               ELSE /\ Fail("remote")
                    /\ UNCHANGED loc
    /\ UNCHANGED <<params, run, nrm>>

\* create_security_group, lines 750-751: sleep, then re-read the group. The
\* provider is eventually consistent: the group it returns may not show the
\* default egress rule yet.
CreateDescribe ==
    /\ pc = "create_sleep"
    /\ \E seen \in {remote.group.IpPermissionsEgress, {}} :
           loc' = [loc EXCEPT !.group =
                      GroupDict([remote.group EXCEPT !.IpPermissionsEgress = seen])]
    /\ calls' = Described1(calls)
    /\ pc' = "create_check"
    /\ UNCHANGED <<params, remote, run, result, nrm>>

\* create_security_group, lines 752-756, and line 885
CreateCheck ==
    /\ pc = "create_check"
    /\ IF loc.group.VpcId # None /\ loc.group.IpPermissionsEgress = {}
       THEN /\ pc' = "create_sleep"
            /\ UNCHANGED loc
       ELSE /\ pc' = "tags"
            /\ loc' = [loc EXCEPT !.changed = TRUE]
    /\ UNCHANGED <<params, remote, run, calls, result, nrm>>

\* After, with the authorizes issued before the revokes
AfterAuthorizeFirst(step) ==
    CASE step = "rules" -> "update_desc"
      [] step = "update_desc" -> "authorize"
      [] step = "authorize" -> "revoke"
      [] step = "revoke" -> "final"

\* The order of the rule steps of main: descriptions (958-963), then revokes
\* (966), then authorizes (968-972), then the end (974)
After(step) ==
    CASE step = "rules" -> "update_desc"
      [] step = "update_desc" -> "revoke"
      [] step = "revoke" -> "authorize"
      [] step = "authorize" -> "final"

\* Where main goes once the tags are done: line 891 and the loop of 897
AfterTags(l) ==
    IF l.group.none THEN "final"
    ELSE IF Len(Work(l)) = 0 THEN After("rules") ELSE "rules"

\* update_tags, had it left out the delete_tags call
update_tags_create_only(current_tags, tags, purge_tags, check_mode) ==
    LET cmp == compare_aws_tags(current_tags, tags, purge_tags)
        add == IF DOMAIN cmp.tags_need_modify # {}
               THEN <<Call("create_tags", {}, {}, cmp.tags_need_modify)>> ELSE <<>>
    IN [changed |-> cmp.tags_to_delete # {} \/ DOMAIN cmp.tags_need_modify # {},
        calls |-> IF check_mode THEN <<>> ELSE add]

\* update_tags: what it adds to changed, and the calls it issues in order
update_tags(current_tags, tags, purge_tags, check_mode) ==
    LET cmp == compare_aws_tags(current_tags, tags, purge_tags)
        del == IF cmp.tags_to_delete # {}
               THEN <<Call("delete_tags", {}, cmp.tags_to_delete, <<>>)>> ELSE <<>>
        add == IF DOMAIN cmp.tags_need_modify # {}
               THEN <<Call("create_tags", {}, {}, cmp.tags_need_modify)>> ELSE <<>>
    IN [changed |-> cmp.tags_to_delete # {} \/ DOMAIN cmp.tags_need_modify # {},
        calls |-> IF check_mode THEN <<>> ELSE del \o add]

\* lines 887-889 and update_tags
UpdateTags ==
    /\ pc = "tags"
    /\ IF params.tags.none \/ loc.group.none
       THEN /\ pc' = AfterTags(loc)
            /\ UNCHANGED <<calls, remote, loc, result>>
       ELSE LET upd == update_tags(loc.group.Tags, params.tags.d, params.purge_tags,
                                   params.check_mode)
            IN \E failAt \in 0..Len(upd.calls) :
               /\ Issue(upd.calls, failAt)
               /\ IF failAt = 0
                  THEN /\ loc' = [loc EXCEPT !.changed = @ \/ upd.changed]
                       /\ pc' = AfterTags(loc)
                       /\ UNCHANGED result
                  ELSE /\ Fail("remote")
                       /\ UNCHANGED loc
    /\ UNCHANGED <<params, run, nrm>>

\* IsAllProto, had it compared proto with the strings only
IsAllProtoStrings(proto) ==
    proto.ty = "str" /\ proto.s \in {"all", "-1"}

\* rule['proto'] in ('all', '-1', -1)
IsAllProto(proto) ==
    \/ proto.ty = "str" /\ proto.s \in {"all", "-1"}
    \/ proto.ty = "int" /\ proto.s = "-1"

\* lines 905-917: the Rule main appends for a rule dict and its target
named_tuple_rule(rule, target_type, target) ==
    LET all == IsAllProto(rule["proto"])
    IN Rule(IF all THEN <<PNone, PNone>> ELSE <<rule["to_port"], rule["from_port"]>>,
            IF all THEN ProtoInt("-1") ELSE rule["proto"],
            target, target_type,
            IF "rule_desc" \in DOMAIN rule THEN Some(rule["rule_desc"]) ELSE None)

\* lines 901-918: one pass of the loop body, for rule number loc.idx
ResolveRule ==
    /\ pc = "rules"
    /\ LET w == Work(loc)[loc.idx]
           rule == w.rule
           t == get_target_from_rule(params.check_mode, rule, params.name, loc.group, loc.groups)
           cs == IF t.create = None THEN <<>>
                 ELSE <<Call("create_security_group", {}, {t.create[1]}, <<>>)>>
           all == "proto" \in DOMAIN rule /\ IsAllProto(rule["proto"])
           keysOk == /\ "proto" \in DOMAIN rule
                     /\ all \/ {"from_port", "to_port"} \subseteq DOMAIN rule
           r == named_tuple_rule(rule, t.target_type, t.target)
       IN IF t.fail
          THEN /\ Fail("validation")
               /\ UNCHANGED <<calls, remote, loc>>
          ELSE \E failAt \in 0..Len(cs) :
               /\ Issue(cs, failAt)
               /\ IF failAt # 0
                  THEN /\ Fail("remote")
                       /\ UNCHANGED loc
                  ELSE IF ~keysOk
                  THEN \* KeyError
                       /\ Fail("exception")
                       /\ loc' = [loc EXCEPT !.groups = t.groups]
                  ELSE /\ loc' = [loc EXCEPT
                              !.groups = t.groups,
                              !.changed = @ \/ t.target_group_created,
                              !.idx = @ + 1,
                              !.named_tuple_ingress_list =
                                  IF w.rule_type = "in" THEN Append(@, r) ELSE @,
                              !.named_tuple_egress_list =
                                  IF w.rule_type = "out" THEN Append(@, r) ELSE @]
                       /\ pc' = IF loc.idx = Len(Work(loc)) THEN After("rules") ELSE "rules"
                       /\ UNCHANGED result
    /\ UNCHANGED <<params, run, nrm>>

\* InOut, had the calls been issued in check mode as well
InOutUnchecked(op_in, perms_in, op_out, perms_out) ==
    (IF perms_in # {} THEN <<Call(op_in, perms_in, {}, <<>>)>> ELSE <<>>)
        \o (IF perms_out # {} THEN <<Call(op_out, perms_out, {}, <<>>)>> ELSE <<>>)

\* The calls of one step for the two directions, none in check mode
InOut(op_in, perms_in, op_out, perms_out) ==
    IF params.check_mode THEN <<>>
    ELSE (IF perms_in # {} THEN <<Call(op_in, perms_in, {}, <<>>)>> ELSE <<>>)
         \o (IF perms_out # {} THEN <<Call(op_out, perms_out, {}, <<>>)>> ELSE <<>>)

\* One step of calls for the two directions: an exception of to_permission
\* while the permissions are built, else the calls, then changed and the next pc
RuleStep(raises, cs, anything, next) ==
    IF raises
    THEN /\ Fail("exception")
         /\ UNCHANGED <<calls, remote, loc>>
    ELSE \E failAt \in 0..Len(cs) :
         /\ Issue(cs, failAt)
         /\ IF failAt = 0
            THEN /\ loc' = [loc EXCEPT !.changed = @ \/ anything]
                 /\ pc' = next
                 /\ UNCHANGED result
            ELSE /\ Fail("remote")
                 /\ UNCHANGED loc

\* lines 958-963 and update_rules_description: the egress permissions are
\* built after the ingress call
UpdateDescriptions ==
    /\ pc = "update_desc"
    /\ LET upd_in == ingress_needs_desc_update(loc)
           upd_out == egress_needs_desc_update(loc)
           op_in == "update_security_group_rule_descriptions_ingress"
           op_out == "update_security_group_rule_descriptions_egress"
       IN IF \E r \in upd_in : ToPermissionRaises(r)
          THEN /\ Fail("exception")
               /\ UNCHANGED <<calls, remote, loc>>
          ELSE IF \E r \in upd_out : ToPermissionRaises(r)
          THEN \E failAt \in 0..1 :
               /\ Issue(InOut(op_in, rules_to_permissions(upd_in), op_out, {}), failAt)
               /\ Fail(IF failAt = 0 THEN "exception" ELSE "remote")
               /\ UNCHANGED loc
          ELSE RuleStep(FALSE,
                        InOut(op_in, rules_to_permissions(upd_in),
                              op_out, rules_to_permissions(upd_out)),
                        upd_in # {} \/ upd_out # {}, After("update_desc"))
    /\ UNCHANGED <<params, run, nrm>>

\* line 966 and remove_old_permissions
RevokeOld ==
    /\ pc = "revoke"
    /\ RuleStep(FALSE,
                InOut("revoke_security_group_ingress", revoke_ingress(loc),
                      "revoke_security_group_egress", revoke_egress(loc)),
                revoke_ingress(loc) # {} \/ revoke_egress(loc) # {}, After("revoke"))
    /\ UNCHANGED <<params, run, nrm>>

\* lines 968-972 and add_new_permissions
AuthorizeNew ==
    /\ pc = "authorize"
    /\ RuleStep(\E r \in new_ingress(loc) \cup new_egress(loc) : ToPermissionRaises(r),
                InOut("authorize_security_group_ingress", rules_to_permissions(new_ingress(loc)),
                      "authorize_security_group_egress", rules_to_permissions(new_egress(loc))),
                new_ingress(loc) # {} \/ new_egress(loc) # {}, After("authorize"))
    /\ UNCHANGED <<params, run, nrm>>

\* lines 974-990
Final ==
    /\ pc = "final"
    /\ IF loc.group.none
       THEN /\ Exit(loc.changed, NoGroup)
            /\ UNCHANGED calls
       ELSE IF ~params.check_mode
       THEN \* line 975
            /\ Fail("line 975")
            /\ UNCHANGED calls
       ELSE IF \/ loc.group_created_new /\ params.rules.none /\ params.rules_egress.none
               \/ ~(loc.changed /\ ~params.check_mode)
       THEN /\ calls' = Described1(calls)
            /\ Exit(loc.changed, GroupDict(remote.group))
       ELSE \* wait_for_rule_propagation: not reached, line 975 ended the run
            /\ pc' = "wait"
            /\ UNCHANGED <<calls, result>>
    /\ UNCHANGED <<params, remote, run, loc, nrm>>

\* The task is run again with the same parameters, after a run outside check
\* mode that went through all of main
Rerun ==
    /\ pc = "done" /\ run = 1 /\ ~params.check_mode
    /\ result.kind = "exit" \/ result.why = "line 975"
    /\ pc' = "start"
    /\ run' = 2
    /\ calls' = <<>>
    /\ loc' = InitLoc
    /\ result' = NoResult
    /\ UNCHANGED <<params, remote, nrm>>

-----------------------------------------------------------------------------
(* The inputs of the model *)

Cidr == "10.0.0.0/8"

RawRule(proto, from_port, to_port) ==
    [proto |-> ProtoStr(proto), from_port |-> from_port, to_port |-> to_port]

Tcp80 == RawRule("tcp", PInt(80), PInt(80))

\* Rule dicts a task may give in rules
IngressRules ==
    { Tcp80 @@ [cidr_ip |-> Scalar(Cidr)],
      RawRule("tcp", PInt(80), PInt(90)) @@ [cidr_ip |-> Scalar(Cidr)],
      RawRule("tcp", PStr(80), PStr(80)) @@ [cidr_ip |-> Scalar(Cidr)],
      RawRule("all", PInt(80), PInt(80)) @@ [cidr_ip |-> Scalar(Cidr)],
      Tcp80 @@ [group_id |-> Scalar("sg-2")],
      Tcp80 @@ [cidr_ip |-> Scalar(Cidr), group_id |-> Scalar("sg-2")],
      Tcp80 @@ [cidr_ip |-> Scalar(Cidr), foo |-> "bar"],
      Tcp80 @@ [group_name |-> Scalar("dep")],
      Tcp80 @@ [group_name |-> Scalar("dep"), group_desc |-> "dependency"],
      Tcp80 @@ [cidr_ip |-> Scalar(Cidr), rule_desc |-> "new"],
      [proto |-> ProtoStr("-1"), ports |-> [list |-> TRUE, items |-> <<PInt(80)>>],
       cidr_ip |-> Scalar(Cidr)],
      [proto |-> ProtoInt("-1"), from_port |-> PInt(80), to_port |-> PInt(90),
       cidr_ip |-> Scalar(Cidr)],
      Tcp80 @@ [group_id |-> Scalar("123/sg-9/ext")],
      Tcp80 @@ [group_name |-> Scalar("web")] }

\* Rule dicts a task may give in rules_egress
EgressRules ==
    { Tcp80 @@ [cidr_ip |-> Scalar("0.0.0.0/0")],
      Tcp80 @@ [group_name |-> Scalar("dep"), group_desc |-> "dependency"] }

\* The lists of at most n elements of S
RECURSIVE SeqsUpTo(_, _)
SeqsUpTo(S, n) ==
    IF n = 0 THEN {<<>>}
    ELSE LET shorter == SeqsUpTo(S, n - 1)
         IN shorter \cup {Append(q, x) : q \in shorter, x \in S}

RulesArgs(S, n) == {PyNone} \cup {PyList(q) : q \in SeqsUpTo(S, n)}

TagsArgs == {[none |-> TRUE, d |-> EmptyTags], [none |-> FALSE, d |-> [env |-> "prod"]]}

\* The rules the managed group may hold before the first run
StoredIngress ==
    { Perm(Some(80), Some(80), "tcp", "IpRanges", Cidr, None),
      Perm(Some(80), Some(90), "tcp", "IpRanges", Cidr, None),
      Perm(None, None, "-1", "IpRanges", Cidr, None),
      Perm(Some(80), Some(80), "tcp", "UserIdGroupPairs", "sg-2", None),
      Perm(Some(80), Some(80), "tcp", "IpRanges", Cidr, Some("old")) }

StoredEgress ==
    { DefaultEgress, Perm(Some(80), Some(80), "tcp", "IpRanges", "0.0.0.0/0", None) }

ParamSpace ==
    [name : {"web"}, description : {"web servers"}, vpc_id : {None, Some("vpc-1")},
     rules : RulesArgs(IngressRules, MaxRules),
     rules_egress : {PyNone, PyList(<<>>)} \cup {PyList(<<r>>) : r \in EgressRules},
     state : {"present", "absent"},
     purge_rules : BOOLEAN, purge_rules_egress : BOOLEAN,
     tags : TagsArgs, purge_tags : BOOLEAN, check_mode : BOOLEAN]

\* The managed group is absent, or holds at most one rule per direction
RemoteSpace(vpc_id) ==
    LET absent == [exists |-> FALSE, GroupId |-> "sg-web", GroupName |-> "web",
                   Description |-> "web servers", VpcId |-> vpc_id, Tags |-> EmptyTags,
                   IpPermissions |-> {}, IpPermissionsEgress |-> {}]
        existing == {[absent EXCEPT !.exists = TRUE, !.Tags = [owner |-> "ops"],
                                    !.IpPermissions = i, !.IpPermissionsEgress = e] :
                        i \in {{}} \cup {{p} : p \in StoredIngress},
                        e \in IF vpc_id = None THEN {{}} ELSE {{p} : p \in StoredEgress}}
        \* a group created with another description than the one requested
        legacy == [absent EXCEPT !.exists = TRUE, !.Tags = [owner |-> "ops"],
                                 !.Description = "legacy",
                                 !.IpPermissionsEgress =
                                     IF vpc_id = None THEN {} ELSE {DefaultEgress}]
        plain == [absent EXCEPT !.exists = TRUE, !.Tags = [owner |-> "ops"],
                                !.IpPermissionsEgress =
                                    IF vpc_id = None THEN {} ELSE {DefaultEgress}]
        \* a group named dep, of the managed group's kind (both in the VPC or
        \* both EC2 classic) or of the other kind
        dep(v) == [GroupId |-> "sg-7", GroupName |-> "dep", VpcId |-> v]
        otherKind == IF vpc_id = None THEN Some("vpc-1") ELSE None
    IN {[group |-> g, others |-> {}] : g \in {absent, legacy} \cup existing}
       \cup {[group |-> g, others |-> {dep(v)}] :
                g \in {absent, plain}, v \in {vpc_id, otherKind}}

Init ==
    /\ params \in ParamSpace
    /\ params.state = "absent" =>
           params.rules.none /\ params.rules_egress.none /\ params.tags.none
    /\ params.tags.none => params.purge_tags
    /\ remote \in RemoteSpace(params.vpc_id)
    /\ pc = "start"
    /\ run = 1
    /\ calls = <<>>
    /\ loc = InitLoc
    /\ result = NoResult
    /\ nrm = NormOff

Next ==
    \/ Start
    \/ EnsureAbsent
    \/ EnsurePresent
    \/ CreateDescribe
    \/ CreateCheck
    \/ UpdateTags
    \/ ResolveRule
    \/ UpdateDescriptions
    \/ RevokeOld
    \/ AuthorizeNew
    \/ Final
    \/ Rerun

Spec == Init /\ [][Next]_vars

\* The invocations that leave the egress rules alone and purge what they find
InitFair ==
    /\ Init
    /\ params.rules_egress.none
    /\ params.purge_rules /\ params.purge_rules_egress /\ params.purge_tags

\* The process keeps running: a step that can be taken is taken
FairSpec == InitFair /\ [][Next]_vars /\ WF_vars(Next)

-----------------------------------------------------------------------------
(* The normalizer on its own: main's lines 841-842 applied to a rule list,  *)
(* and applied again to its own result                                      *)

Ports(kind, q) == [list |-> kind, items |-> q]

NormRules ==
    { [proto |-> ProtoStr("tcp"), ports |-> Ports(TRUE, <<PInt(80), PInt(443)>>),
       cidr_ip |-> Scalar("0.0.0.0/0")],
      [proto |-> ProtoStr("tcp"), ports |-> Ports(FALSE, <<PRange(80, 90)>>),
       cidr_ip |-> ListOf(<<Cidr, "0.0.0.0/0">>)],
      [proto |-> ProtoStr("tcp"), ports |-> Ports(TRUE, <<PInt(80), PStr(80), PInt(80)>>),
       cidr_ip |-> ListOf(<<Cidr, Cidr>>), group_id |-> Scalar("sg-2")],
      [proto |-> ProtoStr("udp"), ports |-> Ports(TRUE, <<PRange(80, 90), PInt(53)>>),
       from_port |-> PInt(1), to_port |-> PInt(2),
       group_name |-> ListOf(<<"dep", "web">>), group_desc |-> "dependency",
       rule_desc |-> "dns"],
      Tcp80 @@ [cidr_ip |-> Scalar(Cidr)],
      Tcp80 @@ [cidr_ip |-> Scalar(Cidr), cidr_ipv6 |-> ListOf(<<"::/0">>),
                ip_prefix |-> Scalar("pl-1")],
      Tcp80 @@ [cidr_ip |-> ListOf(<<>>)],
      Tcp80 }

InitNorm ==
    /\ nrm \in {[stage |-> "given", rules |-> R, once |-> PyNone, twice |-> PyNone] :
                   R \in RulesArgs(NormRules, MaxNormRules)}
    /\ params = [name |-> "web", description |-> "web servers", vpc_id |-> None,
                 rules |-> PyNone, rules_egress |-> PyNone, state |-> "present",
                 purge_rules |-> TRUE, purge_rules_egress |-> TRUE,
                 tags |-> [none |-> TRUE, d |-> EmptyTags], purge_tags |-> TRUE,
                 check_mode |-> FALSE]
    /\ remote \in RemoteSpace(None) /\ ~remote.group.exists
    /\ pc = "normalizer"
    /\ run = 1
    /\ calls = <<>>
    /\ loc = InitLoc
    /\ result = NoResult

NormalizeOnce ==
    /\ nrm.stage = "given"
    /\ nrm' = [nrm EXCEPT !.stage = "once", !.once = Normalize(nrm.rules)]
    /\ UNCHANGED <<params, remote, pc, run, calls, loc, result>>

NormalizeAgain ==
    /\ nrm.stage = "once"
    /\ nrm' = [nrm EXCEPT !.stage = "twice", !.twice = Normalize(nrm.once)]
    /\ UNCHANGED <<params, remote, pc, run, calls, loc, result>>

NextNorm == NormalizeOnce \/ NormalizeAgain

SpecNorm == InitNorm /\ [][NextNorm]_vars

-----------------------------------------------------------------------------
(* wait_for_rule_propagation on its own: main's line 982, entered with the   *)
(* desired rules main has built, against a provider whose describe calls     *)
(* show the group's settled rules or not yet                                 *)

\* line 762
tries == 6

\* current_rules ^ set(desired_rules)
SymDiff(A, B) == (A \ B) \cup (B \ A)

\* get_security_groups_with_backoff(GroupIds=[group_id])['SecurityGroups'][0]:
\* the groups a describe call may return
Fetched ==
    {GroupDict([remote.group EXCEPT !.IpPermissions = i, !.IpPermissionsEgress = e]) :
        i \in {remote.group.IpPermissions, {}},
        e \in {remote.group.IpPermissionsEgress, {}}}

\* await_rules' arguments for the rule_key at hand
AwaitDesired(l) ==
    IF l.rule_key = "IpPermissionsEgress"
    THEN Range(l.named_tuple_egress_list) ELSE Range(l.named_tuple_ingress_list)

AwaitPurge(l) ==
    IF l.rule_key = "IpPermissionsEgress" THEN params.purge_rules_egress ELSE params.purge_rules

\* group[rule_key]
AwaitStored(l) ==
    IF l.rule_key = "IpPermissionsEgress"
    THEN l.group.IpPermissionsEgress ELSE l.group.IpPermissions

\* lines 776-779: the first describe, then the egress rules for a VPC group
WaitStart ==
    /\ pc = "wait"
    /\ \E g \in Fetched :
           loc' = [loc EXCEPT !.group = g, !.i = 0,
                              !.rule_key = IF g.VpcId # None THEN "IpPermissionsEgress"
                                           ELSE "IpPermissions"]
    /\ calls' = Described1(calls)
    /\ pc' = "await"
    /\ UNCHANGED <<params, remote, run, result, nrm>>

\* lines 764-771: one pass of the loop, up to its return
AwaitCheck ==
    /\ pc = "await"
    /\ LET current_rules == RulesOfPermissions(AwaitStored(loc))
           desired_rules == AwaitDesired(loc)
           purge == AwaitPurge(loc)
       IN IF \/ purge /\ Cardinality(SymDiff(current_rules, desired_rules)) = 0
             \/ current_rules \cap desired_rules = desired_rules /\ ~purge
          THEN IF loc.rule_key = "IpPermissionsEgress"
               THEN \* line 779: the ingress rules, with the group returned
                    /\ loc' = [loc EXCEPT !.current_rules = current_rules, !.i = 0,
                                          !.rule_key = "IpPermissions"]
                    /\ pc' = "await"
                    /\ UNCHANGED result
               ELSE \* main, lines 983-986
                    /\ loc' = [loc EXCEPT !.current_rules = current_rules]
                    /\ Exit(loc.changed, loc.group)
          ELSE /\ loc' = [loc EXCEPT !.current_rules = current_rules]
               /\ pc' = "await_sleep"
               /\ UNCHANGED result
    /\ UNCHANGED <<params, remote, run, calls, nrm>>

\* lines 772-774: sleep, describe, and fail_json once the loop is over
AwaitFetch ==
    /\ pc = "await_sleep"
    /\ \E g \in Fetched :
           loc' = [loc EXCEPT !.group = g, !.i = @ + 1,
                              !.reported = IF loc.i + 1 = tries
                                           THEN SymDiff(loc.current_rules, AwaitDesired(loc))
                                           ELSE @]
    /\ calls' = Described1(calls)
    /\ IF loc.i + 1 = tries
       THEN Fail("timeout")
       ELSE pc' = "await" /\ UNCHANGED result
    /\ UNCHANGED <<params, remote, run, nrm>>

\* The canonical rules main builds for tcp 80 from an address
Tcp80Rule(cidr) == Rule(<<PInt(80), PInt(80)>>, ProtoStr("tcp"), Some(cidr), "ipv4", None)

\* main has a group and its desired rules, has changed something outside
\* check mode and calls wait_for_rule_propagation
\* The rule lists main may hand to wait_for_rule_propagation for rules (or
\* rules_egress) of one rule dict: tcp 80, a port range, string ports, proto
\* 'all', a group target
WaitDicts(cidr) ==
    { Tcp80 @@ [cidr_ip |-> Scalar(cidr)],
      RawRule("tcp", PInt(80), PInt(90)) @@ [cidr_ip |-> Scalar(cidr)],
      RawRule("tcp", PStr(80), PStr(80)) @@ [cidr_ip |-> Scalar(cidr)],
      RawRule("all", PInt(80), PInt(80)) @@ [cidr_ip |-> Scalar(cidr)],
      Tcp80 @@ [group_id |-> Scalar("sg-2")] }

WaitDesired(cidr) ==
    {<<>>} \cup
    {<<named_tuple_rule(d, IF "group_id" \in DOMAIN d THEN "group" ELSE "ipv4",
                        Some(IF "group_id" \in DOMAIN d THEN Src(d, "group_id")
                             ELSE Src(d, "cidr_ip")))>> : d \in WaitDicts(cidr)}

InitWait ==
    /\ params \in [name : {"web"}, description : {"web servers"},
                    vpc_id : {None, Some("vpc-1")},
                    rules : {PyList(<<>>)}, rules_egress : {PyList(<<>>)},
                    state : {"present"}, purge_rules : BOOLEAN, purge_rules_egress : BOOLEAN,
                    tags : {[none |-> TRUE, d |-> EmptyTags]}, purge_tags : {TRUE},
                    check_mode : {FALSE}]
    /\ \E di \in WaitDesired(Cidr), de \in WaitDesired("0.0.0.0/0") :
         /\ remote \in {[group |-> [exists |-> TRUE, GroupId |-> "sg-web", GroupName |-> "web",
                                     Description |-> "web servers", VpcId |-> params.vpc_id,
                                     Tags |-> EmptyTags, IpPermissions |-> i,
                                     IpPermissionsEgress |-> e],
                          others |-> {}] :
                            i \in {{}, {Perm(Some(80), Some(80), "tcp", "IpRanges", Cidr, None)},
                                   rules_to_permissions(Range(di))},
                            e \in IF params.vpc_id = None THEN {{}}
                                  ELSE {{}, rules_to_permissions(Range(de))}
                                       \cup {{q} : q \in StoredEgress}}
         /\ loc = [InitLoc EXCEPT !.group = GroupDict(remote.group), !.changed = TRUE,
                                  !.named_tuple_ingress_list = di,
                                  !.named_tuple_egress_list = de]
    /\ pc = "wait"
    /\ run = 1
    /\ calls = <<>>
    /\ result = NoResult
    /\ nrm = NormOff

NextWait == WaitStart \/ AwaitCheck \/ AwaitFetch

SpecWait == InitWait /\ [][NextWait]_vars

-----------------------------------------------------------------------------
(* lib/ansible/modules/cloud/amazon/ec2_instance.py: main, the tag loop,     *)
(* ensure_instance_state and change_instance_state. The variables are those  *)
(* of the group model: remote holds the provider's instances, loc the locals *)
(* of main and of change_instance_state. The task gives tags (or name) and   *)
(* an image, so that build_run_instance_spec can build a launch request.     *)

\* the instances the account may hold before the invocation
MaxInstances == 2

InstanceIds == 1..MaxInstances

\* the id the provider gives to the instance run_instances launches
NewInstanceId == 0

NoInstance == [exists |-> FALSE, State |-> "terminated", Tags |-> None,
               DisableApiTermination |-> FALSE]

\* Tags is None when the describe result has no 'Tags' key (an instance
\* without tags), else Some(the tags as a dict)
Instance(State, Tags, DisableApiTermination) ==
    [exists |-> TRUE, State |-> State, Tags |-> Tags,
     DisableApiTermination |-> DisableApiTermination]

InstanceMutatingOps == {"run_instances", "start_instances", "stop_instances",
                        "terminate_instances", "modify_instance_attribute",
                        "create_tags", "delete_tags"}

\* lines 1192-1199: the instance-state-name values of the default filters;
\* the other default filters (subnet, name, image) match every instance of
\* the model
DefaultFilters(state) ==
    IF state = "stopped" THEN {"pending", "running"}
    ELSE {"pending", "running", "stopping", "stopped"}

\* module.params['filters'] after line 1221
Filters(p) == IF p.filters = None THEN Some(DefaultFilters(p.state)) ELSE p.filters

\* find_instances: the ids of the instances found
find_instances(rem, ids, filters) ==
    IF ids # {}
    THEN {id \in ids : rem.instances[id].exists}
    ELSE IF filters = None THEN {}
    ELSE {id \in DOMAIN rem.instances :
             rem.instances[id].exists /\ rem.instances[id].State \in filters[1]}

\* one element of a describe_instances result
Described_instance(rem, id) ==
    [InstanceId |-> id, State |-> rem.instances[id].State, Tags |-> rem.instances[id].Tags]

\* the orders in which the provider may list the instances of S
Orderings(S) == {q \in [1..Cardinality(S) -> S] : Range(q) = S}

\* pretty_instance raises KeyError for an instance without 'Tags'
PrettyRaises(rem, ids) == \E id \in ids : rem.instances[id].Tags = None

\* The provider accepts a state change of an instance: not for an instance
\* that is gone, and not a termination under termination protection
Accepts(rem, op, id) ==
    /\ rem.instances[id].exists
    /\ op = "terminate_instances" => ~rem.instances[id].DisableApiTermination
    /\ op \in {"start_instances", "stop_instances"} => rem.instances[id].State # "terminated"

StateAfter(op) ==
    CASE op = "terminate_instances" -> "terminated"
      [] op = "stop_instances" -> "stopped"
      [] op = "start_instances" -> "running"

\* change_instance_state, lines 1045-1053: the call made for desired_state
ChangeOp(desired_state) ==
    CASE desired_state = "TERMINATED" -> "terminate_instances"
      [] desired_state = "STOPPED" -> "stop_instances"
      [] desired_state = "RUNNING" -> "start_instances"

InstanceLoc == [existing_matches |-> <<>>, idx |-> 1, changed |-> FALSE,
                phase |-> "", desired_state |-> "", to_change |-> {}, pending |-> {},
                changed_ids |-> {}, returns |-> <<>>]

InstanceResult(kind, why, changed, success, failed) ==
    [kind |-> kind, why |-> why, changed |-> changed, success |-> success, failed |-> failed]

\* module.exit_json
InstanceExit(changed, success) ==
    /\ pc' = "done"
    /\ result' = InstanceResult("exit", "", changed, success, {})

\* module.fail_json / fail_json_aws / an uncaught exception
InstanceFail(why, success, failed) ==
    /\ pc' = "done"
    /\ result' = InstanceResult("fail", why, FALSE, success, failed)

DescribeInstances == Call("describe_instances", {}, {}, <<>>)

\* lines 1190-1224: the filters, then find_instances
FindExisting ==
    /\ pc = "find"
    /\ \E q \in Orderings(find_instances(remote, {}, Filters(params))) :
          /\ loc' = [loc EXCEPT !.existing_matches =
                         MapSeq(q, LAMBDA id : Described_instance(remote, id)),
                                !.idx = 1, !.changed = FALSE]
          /\ pc' = IF params.state \notin {"terminated", "absent"} /\ q # <<>>
                   THEN "match_tags" ELSE "state"
    /\ calls' = Append(calls, DescribeInstances)
    /\ UNCHANGED <<params, remote, run, result, nrm>>

\* lines 1229-1235: compare_aws_tags and the create_tags call of one match
TagCallsOf(match) ==
    LET cmp == compare_aws_tags(match.Tags[1], IF params.tags.none THEN EmptyTags
                                                ELSE params.tags.d, params.purge_tags)
    IN [set |-> IF DOMAIN cmp.tags_need_modify # {}
                THEN <<Call("create_tags", {}, {match.InstanceId}, cmp.tags_need_modify)>>
                ELSE <<>>,
        tags_to_delete |-> cmp.tags_to_delete]

\* The provider after a call of ec2_instance
InstanceApply(rem, c) ==
    LET id == CHOOSE i \in c.names : TRUE
        ins == rem.instances[id]
    IN CASE c.op = "create_tags" ->
                [rem EXCEPT !.instances[id].Tags =
                    Some(c.tags @@ (IF ins.Tags = None THEN EmptyTags ELSE ins.Tags[1]))]
         [] c.op = "modify_instance_attribute" ->
                [rem EXCEPT !.instances[id].DisableApiTermination = c.tags.DisableApiTermination]
         [] c.op = "run_instances" ->
                [rem EXCEPT !.instances[id] =
                    Instance("running", Some(c.tags.Tags), c.tags.DisableApiTermination)]
         [] c.op \in {"terminate_instances", "stop_instances", "start_instances"} ->
                [rem EXCEPT !.instances[id].State = StateAfter(c.op)]
         [] OTHER -> rem

\* lines 1227-1240: one pass of the loop, for match number loc.idx. The
\* delete_tags call is never reached: building its argument calls .get on
\* match['Tags'], a list
TagMatch ==
    /\ pc = "match_tags"
    /\ LET match == loc.existing_matches[loc.idx]
       IN IF match.Tags = None
          THEN \* KeyError: 'Tags'
               /\ InstanceFail("exception", {}, {})
               /\ UNCHANGED <<calls, remote, loc>>
          ELSE LET t == TagCallsOf(match)
               IN \E ok \in BOOLEAN :
                  /\ calls' = calls \o t.set
                  /\ IF t.set # <<>> /\ ~ok
                     THEN \* the provider's error is not caught
                          /\ InstanceFail("remote", {}, {})
                          /\ UNCHANGED <<remote, loc>>
                     ELSE /\ remote' = IF t.set = <<>> THEN remote
                                       ELSE InstanceApply(remote, t.set[1])
                          /\ IF t.tags_to_delete # {}
                             THEN \* AttributeError at line 1238
                                  /\ InstanceFail("exception", {}, {})
                                  /\ UNCHANGED loc
                             ELSE /\ loc' = [loc EXCEPT !.changed = @ \/ t.set # <<>>,
                                                        !.idx = @ + 1]
                                  /\ pc' = IF loc.idx = Len(loc.existing_matches)
                                           THEN "state" ELSE "match_tags"
                                  /\ UNCHANGED result
    /\ UNCHANGED <<params, run, nrm>>

\* change_instance_state, lines 1040-1041: find_instances with the filters
Begin(desired_state, phase, l) ==
    LET to_change == find_instances(remote, {}, Filters(params))
    IN /\ loc' = [l EXCEPT !.phase = phase, !.desired_state = desired_state,
                           !.to_change = to_change, !.pending = to_change,
                           !.changed_ids = {}]
       /\ calls' = Append(calls, DescribeInstances)
       /\ pc' = "change"

NotRunning(l) ==
    \E i \in 1..Len(l.existing_matches) : l.existing_matches[i].State # "running"

\* lines 1244-1245: running/started with a match that is not running
StartExisting ==
    /\ pc = "state"
    /\ params.state \in {"running", "started"}
    /\ loc.existing_matches # <<>> /\ NotRunning(loc)
    /\ Begin("RUNNING", "main", loc)
    /\ UNCHANGED <<params, remote, run, result, nrm>>

\* diff_instance_and_params: the describe_instance_attribute call and the
\* changes to apply (ebs_optimized is not given)
diff_instance_and_params(rem, id, p) ==
    IF p.termination_protection = None THEN [calls |-> <<>>, changes |-> <<>>]
    ELSE [calls |-> <<Call("describe_instance_attribute", {}, {id}, <<>>)>>,
          changes |-> IF rem.instances[id].DisableApiTermination # p.termination_protection[1]
                      THEN <<Call("modify_instance_attribute", {}, {id},
                                  [DisableApiTermination |-> p.termination_protection[1]])>>
                      ELSE <<>>]

\* lines 1251-1261: the attributes of the first match
ModifyExisting ==
    /\ pc = "state"
    /\ params.state \in {"present", "running", "started"}
    /\ loc.existing_matches # <<>>
    /\ ~(params.state \in {"running", "started"} /\ NotRunning(loc))
    /\ LET d == diff_instance_and_params(remote, loc.existing_matches[1].InstanceId, params)
           ids == {loc.existing_matches[i].InstanceId : i \in 1..Len(loc.existing_matches)}
       IN \E ok \in BOOLEAN :
          IF d.changes # <<>> /\ ~ok
          THEN \* the provider's error is not caught
               /\ calls' = calls \o d.calls \o d.changes
               /\ InstanceFail("remote", {}, {})
               /\ UNCHANGED remote
          ELSE /\ calls' = Append(calls \o d.calls \o d.changes, DescribeInstances)
               /\ remote' = IF d.changes = <<>> THEN remote
                            ELSE InstanceApply(remote, d.changes[1])
               /\ IF PrettyRaises(remote', ids)
                  THEN InstanceFail("exception", {}, {})
                  ELSE InstanceExit(d.changes # <<>> \/ loc.changed, {})
    /\ UNCHANGED <<params, run, loc, nrm>>

\* build_run_instance_spec, had it asked for up to two instances
build_run_instance_spec_two(p) ==
    Call("run_instances", {}, {NewInstanceId},
         [MinCount |-> 1, MaxCount |-> 2, Tags |-> p.tags.d,
          DisableApiTermination |-> IF p.termination_protection = None THEN FALSE
                                    ELSE p.termination_protection[1]])

\* build_run_instance_spec: the launch request. MinCount = MaxCount = 1, the
\* tags of build_instance_tags, DisableApiTermination of build_top_level_options
build_run_instance_spec(p) ==
    Call("run_instances", {}, {NewInstanceId},
         [MinCount |-> 1, MaxCount |-> 1, Tags |-> p.tags.d,
          DisableApiTermination |-> IF p.termination_protection = None THEN FALSE
                                    ELSE p.termination_protection[1]])

\* lines 1262-1285: no match, an instance is launched. With tags and name
\* both unset build_instance_tags hands None to ansible_dict_to_boto3_tag_list
RunInstances ==
    /\ pc = "state"
    /\ params.state \in {"present", "running", "started"}
    /\ loc.existing_matches = <<>>
    /\ IF params.tags.none
       THEN /\ InstanceFail("exception", {}, {})
            /\ UNCHANGED <<calls, remote>>
       ELSE LET instance_spec == build_run_instance_spec(params)
                d == diff_instance_and_params(remote, NewInstanceId, params)
            IN \E ok \in BOOLEAN :
               IF ~ok
               THEN /\ calls' = Append(calls, instance_spec)
                    /\ InstanceFail("remote", {}, {})
                    /\ UNCHANGED remote
               ELSE /\ calls' = Append(Append(calls, instance_spec) \o d.calls,
                                       DescribeInstances)
                    /\ remote' = InstanceApply(remote, instance_spec)
                    /\ InstanceExit(TRUE, {})
    /\ UNCHANGED <<params, run, loc, nrm>>

\* lines 1286-1288 and the first change_instance_state of ensure_instance_state
EnsureState ==
    /\ pc = "state"
    /\ params.state \notin {"present", "running", "started"}
    /\ loc.existing_matches # <<>>
    /\ Begin(IF params.state \in {"restarted", "rebooted", "stopped"} THEN "STOPPED"
             ELSE "TERMINATED",
             IF params.state \in {"restarted", "rebooted"} THEN "restart_stop"
             ELSE "ensure", loc)
    /\ UNCHANGED <<params, remote, run, result, nrm>>

\* lines 1289-1294
NoMatches ==
    /\ pc = "state"
    /\ params.state \notin {"present", "running", "started"}
    /\ loc.existing_matches = <<>>
    /\ InstanceExit(FALSE, {})
    /\ UNCHANGED <<params, remote, run, calls, loc, nrm>>

\* lines 1047, 1050, 1053: changed after the call for id_
ChangedAfter(changed, id, succeeded) ==
    IF succeeded THEN changed \cup {id} ELSE changed

\* change_instance_state, lines 1043-1056: the call for one id of to_change;
\* an error of the provider is swallowed
ChangeOne ==
    /\ pc = "change" /\ loc.pending # {}
    /\ \E id \in loc.pending, ok \in BOOLEAN :
          LET c == Call(ChangeOp(loc.desired_state), {}, {id}, <<>>)
              succeeded == ok /\ Accepts(remote, c.op, id)
          IN /\ calls' = Append(calls, c)
             /\ remote' = IF succeeded THEN InstanceApply(remote, c) ELSE remote
             /\ loc' = [loc EXCEPT !.pending = @ \ {id},
                                   !.changed_ids = ChangedAfter(@, id, succeeded)]
    /\ UNCHANGED <<params, pc, run, result, nrm>>

\* ensure_instance_state's end for one state, had it looked at the changed
\* set only
EnsureEndIgnoringFailed(changed, failed, rem, ids) ==
    IF PrettyRaises(rem, ids) THEN InstanceFail("exception", {}, {})
    ELSE InstanceExit(changed # {}, changed)

\* ensure_instance_state, lines 985-997, 1003-1015, 1021-1032: fail_json when
\* an instance failed, else exit_json
EnsureEnd(changed, failed, rem, ids) ==
    IF failed # {} THEN InstanceFail("change_failed", changed, failed)
    ELSE IF PrettyRaises(rem, ids) THEN InstanceFail("exception", {}, {})
    ELSE InstanceExit(changed # {}, changed)

\* change_instance_state, lines 1058-1063, and what its caller does with
\* the result: main (1246-1250) or ensure_instance_state
ChangeEnd ==
    /\ pc = "change" /\ loc.pending = {}
    /\ LET changed == loc.changed_ids
           change_failed == loc.to_change \ changed
           ret == [desired_state |-> loc.desired_state, to_change |-> loc.to_change,
                   changed |-> changed, change_failed |-> change_failed]
           l == [loc EXCEPT !.returns = Append(@, ret)]
           found == IF loc.to_change = {} THEN calls ELSE Append(calls, DescribeInstances)
       IN CASE loc.phase = "main" ->
                 /\ calls' = found
                 /\ loc' = l
                 /\ IF PrettyRaises(remote, loc.to_change)
                    THEN InstanceFail("exception", {}, {})
                    ELSE InstanceExit(changed # {} \/ loc.changed, {})
            [] loc.phase = "restart_stop" ->
                 \* lines 978-983: the result is dropped, the instances are started
                 LET to_change == find_instances(remote, {}, Filters(params))
                 IN /\ calls' = Append(found, DescribeInstances)
                    /\ loc' = [l EXCEPT !.phase = "ensure", !.desired_state = "RUNNING",
                                        !.to_change = to_change, !.pending = to_change,
                                        !.changed_ids = {}]
                    /\ UNCHANGED <<pc, result>>
            [] loc.phase = "ensure" ->
                 /\ calls' = found
                 /\ loc' = l
                 /\ EnsureEnd(changed, change_failed, remote, loc.to_change)
    /\ UNCHANGED <<params, remote, run, nrm>>

\* The tasks of the model: every state, tags given or not, filters given
\* (on the instance state) or not
InstanceParams ==
    [state : {"present", "started", "running", "stopped", "restarted", "rebooted",
              "terminated", "absent"},
     check_mode : BOOLEAN, purge_tags : BOOLEAN, tags : TagsArgs,
     termination_protection : {None, Some(TRUE)},
     filters : {None, Some({"running"}),
                Some({"pending", "running", "stopping", "stopped", "terminated"})}]

InstancesBefore ==
    {NoInstance, Instance("terminated", Some([owner |-> "ops"]), FALSE)}
    \cup {Instance("running", t, prot) :
            t \in {None, Some([owner |-> "ops"]), Some([env |-> "prod"])},
            prot \in BOOLEAN}
    \cup {Instance("stopped", Some([owner |-> "ops"]), prot) : prot \in BOOLEAN}

InitInstance ==
    /\ params \in InstanceParams
    /\ \E before \in [InstanceIds -> InstancesBefore] :
          remote = [instances |-> before @@ (NewInstanceId :> NoInstance)]
    /\ pc = "find"
    /\ run = 1
    /\ calls = <<>>
    /\ loc = InstanceLoc
    /\ result = NoResult
    /\ nrm = NormOff

NextInstance ==
    \/ FindExisting
    \/ TagMatch
    \/ StartExisting
    \/ ModifyExisting
    \/ RunInstances
    \/ EnsureState
    \/ NoMatches
    \/ ChangeOne
    \/ ChangeEnd

SpecInstance == InitInstance /\ [][NextInstance]_vars

-----------------------------------------------------------------------------
(* Properties *)

Mutating(log) == {i \in 1..Len(log) : log[i].op \in MutatingOps}

Finished == pc = "done"

\* The rule dicts of the task, as given
GivenRules == Range(params.rules.list) \cup Range(params.rules_egress.list)

\* C1 (as claimed): a second run with the same desired state, after a first
\* run with state=present that went through all of main and whose calls the
\* provider applied, issues no mutating call.
C1_SecondRunIssuesNoMutatingCall ==
    (run = 2 /\ Finished /\ params.state = "present") => Mutating(calls) = {}


\* C2 (as claimed): for each direction, with C the stored rules main read, D
\* the desired rules as to_permission serializes them, and add / revoke the
\* batches main computes: (C \cup add) \ revoke = D when purge is enabled for
\* the direction, and D is within C \cup add when it is not.
C2_DiffConverges ==
    (pc = "update_desc" /\ ~\E r \in Range(loc.named_tuple_ingress_list)
                                       \cup Range(loc.named_tuple_egress_list) :
                               ToPermissionRaises(r)) =>
        LET Cin == loc.group.IpPermissions
            Din == rules_to_permissions(Range(loc.named_tuple_ingress_list))
            addIn == rules_to_permissions(new_ingress(loc))
            Cout == loc.group.IpPermissionsEgress
            Dout == rules_to_permissions(Range(loc.named_tuple_egress_list))
            addOut == rules_to_permissions(new_egress(loc))
        IN /\ IF params.purge_rules
              THEN (Cin \cup addIn) \ revoke_ingress(loc) = Din
              ELSE Din \subseteq Cin \cup addIn
           /\ ~params.rules_egress.none =>
                  IF params.purge_rules_egress
                  THEN (Cout \cup addOut) \ revoke_egress(loc) = Dout
                  ELSE Dout \subseteq Cout \cup addOut

\* C3 (as claimed): a run with state=present outside check mode, in which the
\* group exists or is created and no validation error and no remote error
\* occurs, ends in exit_json with the changed flag and the group.
C3_PresentEndsInSuccess ==
    (Finished /\ params.state = "present" /\ ~params.check_mode
        /\ result.why \notin {"validation", "remote"}) =>
        result.kind = "exit" /\ ~result.group.none

\* The desired ingress rules that differ from a current rule of the group in
\* the description only
DescriptionOnly(l) ==
    {r \in Range(l.named_tuple_ingress_list) :
        \E c \in current_ingress(l) : rule_cmp(r, c) /\ r.description # c.description}

\* C4 (as claimed): for a desired rule that differs from a current rule in the
\* description only, main issues an update-description call with it, no revoke
\* or authorize call holds its tuple, and the group never lacks the rule.
C4_DescriptionOnlyChangeKeepsRule ==
    (pc \in {"revoke", "authorize", "final", "done"} /\ ~params.check_mode
        /\ result.why # "remote") =>
        \A r \in DescriptionOnly(loc) :
            LET p == to_permission(r)
            IN /\ \E i \in 1..Len(calls) :
                      /\ calls[i].op = "update_security_group_rule_descriptions_ingress"
                      /\ p \in calls[i].perms
               /\ \A i \in 1..Len(calls) :
                      calls[i].op \in {"revoke_security_group_ingress",
                                       "authorize_security_group_ingress"} =>
                          ~\E q \in calls[i].perms : SameGrant(q, p)
               /\ \E q \in remote.group.IpPermissions : SameGrant(q, p)

\* A rule dict with a CIDR source and a group source
MixedSources(r) ==
    /\ {"cidr_ip", "cidr_ipv6"} \cap DOMAIN r # {}
    /\ {"group_id", "group_name"} \cap DOMAIN r # {}

\* C5 (as claimed): when rules or rules_egress hold a rule dict with both a
\* CIDR source and a group source, the run ends in a validation failure and
\* has made no remote call (stated for the runs that have a group whose
\* rules they go through, and meet no remote error).
C5_MixedSourcesRejected ==
    (Finished /\ result.why # "remote" /\ ~loc.group.none
        /\ \E r \in GivenRules : MixedSources(r)) =>
        result.kind = "fail" /\ result.why = "validation" /\ calls = <<>>

\* C6 (as claimed): a run that fails on a validation error has issued no
\* mutating call.
C6_ValidationFailureMutatesNothing ==
    (Finished /\ result.why = "validation") => Mutating(calls) = {}

IsDependencyCreate(c) == c.op = "create_security_group" /\ c.names # {params.name}

\* The place of a mutating call in the order C7 claims: every group creation,
\* then the tags, the descriptions, the revokes, the authorizes
ClaimedRank(c) ==
    CASE c.op = "create_security_group" -> 1
      [] c.op \in {"delete_tags", "create_tags"} -> 2
      [] c.op \in {"update_security_group_rule_descriptions_ingress",
                   "update_security_group_rule_descriptions_egress"} -> 3
      [] c.op \in {"revoke_security_group_ingress", "revoke_security_group_egress"} -> 4
      [] c.op \in {"authorize_security_group_ingress", "authorize_security_group_egress"} -> 5
      [] OTHER -> 0

\* The same with the dependency groups created after the tags
AmendedRank(c) ==
    IF IsDependencyCreate(c) THEN 3
    ELSE IF ClaimedRank(c) >= 3 THEN ClaimedRank(c) + 1 ELSE ClaimedRank(c)

\* C7 (as claimed): the mutating calls of a run occur in the order creation of
\* groups (managed and dependency), tags, descriptions, revokes, authorizes.
C7_ClaimedOrder ==
    \A i, j \in Mutating(calls) : i < j => ClaimedRank(calls[i]) <= ClaimedRank(calls[j])

\* C7 (amended): the mutating calls of a run occur in the order creation of
\* the managed group, tags, creation of dependency groups, descriptions,
\* revokes, authorizes.
C7_Order ==
    \A i, j \in Mutating(calls) : i < j => AmendedRank(calls[i]) <= AmendedRank(calls[j])

\* C7 witness: a finished run that created the managed group, set tags,
\* created a dependency group and authorized a rule
C7_Witness ==
    /\ Finished
    /\ \E i, j, k, m \in Mutating(calls) :
        /\ i < j /\ j < k /\ k < m
        /\ calls[i].op = "create_security_group" /\ ~IsDependencyCreate(calls[i])
        /\ calls[j].op = "create_tags"
        /\ IsDependencyCreate(calls[k])
        /\ calls[m].op = "authorize_security_group_ingress"

\* C8 (as claimed): every invocation terminates whatever the provider returns.
C8_Terminates == <>Finished

\* C9: N(N(R)) = N(R)
C9_NormalizeIdempotent ==
    nrm.stage = "twice" => nrm.twice = nrm.once

\* C9 witness: a list with a ports list, normalized twice into several rules
C9_Witness ==
    /\ nrm.stage = "twice"
    /\ \E i \in 1..Len(nrm.rules.list) : "ports" \in DOMAIN nrm.rules.list[i]
    /\ Len(nrm.rules.list) = 2 /\ Len(nrm.twice.list) >= 4

SourceKeys == {"cidr_ip", "cidr_ipv6", "group_id", "group_name", "ip_prefix"}

\* The port ranges a rule dict stands for: one per entry of ports ('a-b' is
\* from a to b, any other entry p is from p to p); <<>> when it has no ports
\* key and keeps its own from_port / to_port
PortCombinations(r) ==
    IF "ports" \in DOMAIN r
    THEN {IF p.ty = "str" /\ Len(p.v) = 2
             THEN <<[ty |-> "str", v |-> <<p.v[1]>>], [ty |-> "str", v |-> <<p.v[2]>>]>>
             ELSE <<p, p>> : p \in Range(r["ports"].items)}
    ELSE {<<>>}

\* The sources a rule dict stands for: each value of each source key
SourceCombinations(r) ==
    UNION {{<<k, v>> : v \in Range(r[k].items)} : k \in SourceKeys \cap DOMAIN r}

\* The single-port-range, single-source rule of one combination
Combined(r, pp, src) ==
    LET rest == DictDel(r, SourceKeys \cup {"ports"})
        ported == IF pp = <<>> THEN rest
                  ELSE [from_port |-> pp[1], to_port |-> pp[2]] @@ rest
    IN (src[1] :> [list |-> FALSE, items |-> <<src[2]>>]) @@ ported

Combinations(r) ==
    {Combined(r, pp, src) : pp \in PortCombinations(r), src \in SourceCombinations(r)}

ExampleRule ==
    [proto |-> ProtoStr("tcp"), ports |-> Ports(TRUE, <<PInt(80), PInt(443)>>),
     cidr_ip |-> Scalar("0.0.0.0/0")]

\* C10: normalizing one rule yields one rule per combination of port range
\* and source, each once, without a ports key and with one source key; the
\* rule of the example yields the rules for 80 and for 443.
C10_OneRulePerCombination ==
    (nrm.stage = "once" /\ Len(nrm.rules.list) = 1) =>
        LET r == nrm.rules.list[1]
            out == nrm.once.list
        IN /\ Range(out) = Combinations(r)
           /\ Len(out) = Cardinality(Combinations(r))
           /\ \A i \in 1..Len(out) :
                  /\ "ports" \notin DOMAIN out[i]
                  /\ Cardinality(SourceKeys \cap DOMAIN out[i]) = 1
                  /\ \A k \in SourceKeys \cap DOMAIN out[i] : ~out[i][k].list
           /\ r = ExampleRule =>
                  out = << [proto |-> ProtoStr("tcp"), from_port |-> PInt(80),
                            to_port |-> PInt(80), cidr_ip |-> Scalar("0.0.0.0/0")],
                           [proto |-> ProtoStr("tcp"), from_port |-> PInt(443),
                            to_port |-> PInt(443), cidr_ip |-> Scalar("0.0.0.0/0")] >>

\* C10 witness: one rule with a range 'a-b' and two sources, normalized
C10_Witness ==
    /\ nrm.stage = "once" /\ Len(nrm.rules.list) = 1
    /\ "ports" \in DOMAIN nrm.rules.list[1]
    /\ Len(nrm.once.list) = 4
    /\ \E i \in 1..4 : /\ nrm.once.list[i]["from_port"] = PStr(80)
                       /\ nrm.once.list[i]["to_port"] = PStr(90)

\* The values of proto that stand for all protocols
AllProtocols == {ProtoStr("all"), ProtoStr("-1"), ProtoInt("-1")}

\* The canonical rules main has built so far, each with the rule dict it was
\* built from
BuiltFrom(l) ==
    {<<l.rules.list[i], l.named_tuple_ingress_list[i]>> :
        i \in 1..Len(l.named_tuple_ingress_list)}
    \cup {<<l.rules_egress.list[i], l.named_tuple_egress_list[i]>> :
            i \in 1..Len(l.named_tuple_egress_list)}

\* C11: a desired rule whose proto is 'all', '-1' or -1 gives a canonical Rule
\* with port range (None, None), whatever ports it supplied, and the
\* permission serialized from it has neither FromPort nor ToPort.
C11_AllProtocolsHaveNoPorts ==
    \A b \in BuiltFrom(loc) :
        b[1]["proto"] \in AllProtocols =>
            /\ b[2].port_range = <<PNone, PNone>>
            /\ to_permission(b[2]).FromPort = None
            /\ to_permission(b[2]).ToPort = None

\* C11 witness: a rule given with proto -1 and ports 80 to 90 was authorized
\* as a permission without ports
C11_Witness ==
    /\ \E b \in BuiltFrom(loc) :
           /\ b[1]["proto"] = ProtoInt("-1")
           /\ b[1]["from_port"] = PInt(80) /\ b[1]["to_port"] = PInt(90)
    /\ \E i \in 1..Len(calls) :
           /\ calls[i].op = "authorize_security_group_ingress"
           /\ \E q \in calls[i].perms :
                  q.IpProtocol = "-1" /\ q.FromPort = None /\ q.ToPort = None

\* Every canonical Rule main holds: the desired rules it has built and the
\* current rules it read from the group's permissions
CanonicalRules(l) ==
    Range(l.named_tuple_ingress_list) \cup Range(l.named_tuple_egress_list)
        \cup (IF l.group.none THEN {} ELSE current_ingress(l) \cup current_egress(l))

\* C12 (as claimed): every canonical Rule has exactly one target, of a type in
\* valid_targets, and has port range (None, None) only if its protocol is -1.
C12_RuleWellFormed ==
    \A r \in CanonicalRules(loc) :
        /\ r.target # None
        /\ r.target_type \in valid_targets
        /\ r.port_range = <<PNone, PNone>> => r.protocol \in {ProtoInt("-1"), ProtoStr("-1")}

\* The calls of the log with the given operation
CallsOf(op) == {i \in 1..Len(calls) : calls[i].op = op}

\* The create calls for the managed group
ManagedCreates == {i \in CallsOf("create_security_group") : ~IsDependencyCreate(calls[i])}

\* C13 (as claimed): with state=absent and the group found, one delete call
\* (none in check mode), no other mutating call, and the result is
\* changed=true with no group; with state=absent and no group, no mutating
\* call and changed=false; with state=present and no group, one create call
\* for the managed group (none in check mode) and the result is changed=true.
\* loc.group_created_new is bool(group) of line 857: the group was found.
C13_Lifecycle ==
    (Finished /\ result.why \notin {"remote", "validation", "exception"}) =>
        LET found == loc.group_created_new
            once == IF params.check_mode THEN 0 ELSE 1
        IN /\ (params.state = "absent" /\ found) =>
                  /\ Cardinality(CallsOf("delete_security_group")) = once
                  /\ Mutating(calls) = CallsOf("delete_security_group")
                  /\ result.kind = "exit" /\ result.changed /\ result.group.none
           /\ (params.state = "absent" /\ ~found) =>
                  /\ Mutating(calls) = {}
                  /\ result.kind = "exit" /\ ~result.changed
           /\ (params.state = "present" /\ ~found) =>
                  /\ Cardinality(ManagedCreates) = once
                  /\ result.kind = "exit" /\ result.changed

\* C14: for a group that exists, a run with state=present leaves its
\* description, name, id and VPC association as they are, and neither deletes
\* nor creates the managed group (loc.group_created_new is bool(group) of line
\* 857: the run found the group).
C14_OnlyRulesAndTagsChange ==
    [][(params.state = "present" /\ remote.group.exists) =>
          /\ remote'.group.exists
          /\ remote'.group.Description = remote.group.Description
          /\ remote'.group.GroupName = remote.group.GroupName
          /\ remote'.group.GroupId = remote.group.GroupId
          /\ remote'.group.VpcId = remote.group.VpcId
          /\ (pc' # "start" /\ loc'.group_created_new) =>
                 \A i \in 1..Len(calls') :
                     /\ calls'[i].op # "delete_security_group"
                     /\ ~(calls'[i].op = "create_security_group"
                            /\ calls'[i].names = {params.name})]_vars

\* C14 witness: a run that asked for another description than the group's
\* has changed the group's tags and a rule, and the description is the old one
C14_Witness ==
    /\ Finished /\ params.state = "present"
    /\ loc.group_created_new
    /\ remote.group.Description = "legacy" /\ params.description # "legacy"
    /\ CallsOf("create_tags") # {}
    /\ CallsOf("authorize_security_group_ingress") # {}

\* The run went through main's rule steps, its calls applied by the provider
Converged ==
    /\ ~params.check_mode /\ ~loc.group.none
    /\ pc = "final" \/ (pc = "done" /\ result.why = "line 975")

\* C15 (as claimed): for a VPC group and purge_rules_egress enabled, after
\* convergence the egress set is exactly the default allow-all rule when
\* rules_egress is not given, and is empty when rules_egress is the empty list.
C15_EgressDefaults ==
    (Converged /\ loc.group.VpcId # None /\ params.purge_rules_egress) =>
        /\ params.rules_egress.none => remote.group.IpPermissionsEgress = {DefaultEgress}
        /\ (~params.rules_egress.none /\ params.rules_egress.list = <<>>) =>
               remote.group.IpPermissionsEgress = {}

\* The calls a step adds to the log
NewCalls == SubSeq(calls', Len(calls) + 1, Len(calls'))

\* The canonical rule a pass of main's loop appends
BuiltRule ==
    IF Work(loc)[loc.idx].rule_type = "in"
    THEN loc'.named_tuple_ingress_list[Len(loc'.named_tuple_ingress_list)]
    ELSE loc'.named_tuple_egress_list[Len(loc'.named_tuple_egress_list)]

\* The groups at the provider that bear the name and are of the managed
\* group's kind: both in a VPC, or both EC2 classic
SameKindGroups(group_name) ==
    {g \in remote.others :
        g.GroupName = group_name /\ (g.VpcId = None) = (loc.group.VpcId = None)}

\* C16 (as claimed): the resolution of a rule's group_name. The managed
\* group's own name gives its id and no create call; the name of an existing
\* group of the same kind gives that group's id and no create call; any other
\* name fails the run without a create call when group_desc is blank, else
\* gives one create call for that name (none in check mode) and group_created.
C16_GroupNameResolution ==
    [][(/\ pc = "rules"
        /\ "group_name" \in DOMAIN Work(loc)[loc.idx].rule
        /\ ~validate_rule_fails(Work(loc)[loc.idx].rule)
        /\ result'.why # "remote") =>
          LET rule == Work(loc)[loc.idx].rule
              group_name == Src(rule, "group_name")
              creates == {i \in 1..Len(NewCalls) : NewCalls[i].op = "create_security_group"}
          IN IF group_name = params.name
             THEN creates = {} /\ pc' # "done"
                  /\ BuiltRule.target = Some(loc.group.GroupId)
             ELSE IF SameKindGroups(group_name) # {}
             THEN creates = {} /\ pc' # "done"
                  /\ \E g \in SameKindGroups(group_name) : BuiltRule.target = Some(g.GroupId)
             ELSE IF NoGroupDesc(rule)
             THEN creates = {} /\ result'.kind = "fail"
             ELSE /\ Cardinality(creates) = IF params.check_mode THEN 0 ELSE 1
                  /\ \A i \in creates : NewCalls[i].names = {group_name}
                  /\ pc' # "done" /\ loc'.changed]_vars

\* A rule dict whose group_id is a foreign reference owner/sg-id/name
IsForeign(rule) ==
    "group_id" \in DOMAIN rule /\ ForeignGroups(Src(rule, "group_id")) # <<>>

\* C17 (as claimed): a desired rule with a foreign group_id resolves to the
\* triple (owner, id, name) and no group is created for it; the run does not
\* abort on it, and outside check mode it authorizes a permission that names
\* the group (the rule is never among the current rules main reads).
C17_ForeignGroupAuthorized ==
    (/\ \E r \in Range(loc.rules.list) : IsForeign(r)
     /\ Finished /\ ~loc.group.none
     /\ result.why \notin {"remote", "validation"}) =>
        /\ \A b \in BuiltFrom(loc) :
               IsForeign(b[1]) =>
                   /\ b[2].target_type = "group"
                   /\ b[2].target = ForeignGroups(Src(b[1], "group_id"))
        /\ \A i \in CallsOf("create_security_group") : ~IsDependencyCreate(calls[i])
        /\ result.why # "exception"
        /\ ~params.check_mode =>
               \E i \in CallsOf("authorize_security_group_ingress") :
                   \E q \in calls[i].perms :
                       q.key = "UserIdGroupPairs" /\ q.target = "sg-9"

\* C18: when a mutating call returns an error the run ends in failure at that
\* call: the call is the last of the log and was issued once in its step,
\* the provider has not applied it, and afterwards no call is issued and the
\* provider's state stays as the earlier calls left it.
C18_RemoteErrorEndsRun ==
    [][/\ (result'.why = "remote" /\ result.why # "remote") =>
              /\ pc' = "done" /\ result'.kind = "fail"
              /\ NewCalls # <<>>
              /\ NewCalls[Len(NewCalls)].op \in MutatingOps
              /\ \A i \in 1..(Len(NewCalls) - 1) : NewCalls[i] # NewCalls[Len(NewCalls)]
              /\ remote' = RemoteApplyAll(remote, SubSeq(NewCalls, 1, Len(NewCalls) - 1),
                                          params.name, params.description, params.vpc_id)
       /\ result.why = "remote" =>
              /\ calls' = calls /\ remote' = remote /\ result' = result]_vars

\* C18 witness: the tags were set, then the authorize call returned an error;
\* the run has failed, the tags stay and the rule is not there
C18_Witness ==
    /\ Finished /\ result.why = "remote"
    /\ CallsOf("create_tags") # {}
    /\ calls[Len(calls)].op = "authorize_security_group_ingress"
    /\ "env" \in DOMAIN remote.group.Tags
    /\ remote.group.IpPermissions = {}

\* The rule set of the group most recently fetched matches the desired one:
\* equal to it under purge, a superset of it otherwise
Matches(l) ==
    IF AwaitPurge(l)
    THEN RulesOfPermissions(AwaitStored(l)) = AwaitDesired(l)
    ELSE AwaitDesired(l) \subseteq RulesOfPermissions(AwaitStored(l))

\* C19 (as claimed): wait_for_rule_propagation goes on polling only while the
\* observed rule set does not match and returns a group whose rules match; it
\* fails only after 6 observations, with the most recently fetched rule set
\* not matching, and reports the symmetric difference of the desired set and
\* that most recently fetched set.
C19_PropagationWait ==
    /\ pc = "await_sleep" => ~Matches(loc)
    /\ (Finished /\ result.kind = "exit") => Matches(loc)
    /\ (Finished /\ result.why = "timeout") =>
           /\ loc.i = tries
           /\ ~Matches(loc)
           /\ loc.reported = SymDiff(AwaitDesired(loc), RulesOfPermissions(AwaitStored(loc)))

\* Every rule of the first set is a rule of the second, descriptions apart
Kept(before, after) == \A p \in before : \E q \in after : SameGrant(p, q)

\* C20: in a run with state=present, with purge_rules false no revoke call for
\* ingress is issued and no step takes an ingress rule from the group; the
\* same for purge_rules_egress and the egress rules.
C20_NoPurgeKeepsRules ==
    [][params.state = "present" =>
          /\ ~params.purge_rules =>
                 /\ \A i \in 1..Len(calls') : calls'[i].op # "revoke_security_group_ingress"
                 /\ Kept(remote.group.IpPermissions, remote'.group.IpPermissions)
          /\ ~params.purge_rules_egress =>
                 /\ \A i \in 1..Len(calls') : calls'[i].op # "revoke_security_group_egress"
                 /\ Kept(remote.group.IpPermissionsEgress,
                         remote'.group.IpPermissionsEgress)]_vars

\* C20 witness: without purge, a run has authorized a rule next to a stored
\* rule that is not among the desired ones, and the group holds both
C20_Witness ==
    /\ Finished /\ ~params.purge_rules /\ loc.group_created_new
    /\ CallsOf("authorize_security_group_ingress") # {}
    /\ \E p \in remote.group.IpPermissions :
           p \notin rules_to_permissions(Range(loc.named_tuple_ingress_list))
    /\ Cardinality(remote.group.IpPermissions) = 2

\* C21: the calls of an invocation leave the tags alone when tags is not set;
\* when tags is set and purge_tags is true, the group's tags are exactly the
\* given map once the tag step has completed, and stay so; when purge_tags is
\* false, no step removes a tag key from a group that stays in place.
TagOps == {"create_tags", "delete_tags"}

TagCalls(log) == {i \in 1..Len(log) : log[i].op \in TagOps}

C21_TagStep ==
    /\ params.tags.none => TagCalls(calls') = {}
    /\ (/\ pc = "tags" /\ pc' # "done"
        /\ ~params.tags.none /\ params.purge_tags
        /\ ~params.check_mode /\ ~loc.group.none)
       => remote'.group.Tags = params.tags.d
    /\ (pc # "tags" /\ remote.group.exists /\ remote'.group.exists)
       => remote'.group.Tags = remote.group.Tags
    /\ (~params.purge_tags /\ remote.group.exists /\ remote'.group.exists)
       => DOMAIN remote.group.Tags \subseteq DOMAIN remote'.group.Tags

C21_TagHandling == [][C21_TagStep]_vars

C21_Witness ==
    /\ pc = "final" /\ ~params.tags.none /\ params.purge_tags /\ ~params.check_mode
    /\ \E i, j \in TagCalls(calls) :
          /\ i < j /\ calls[i].op = "delete_tags" /\ calls[j].op = "create_tags"
    /\ remote.group.Tags = params.tags.d

\* C24: in check mode every call in the log of the invocation is a describe
\* call; no create, delete, tag, update-description, revoke or authorize call
\* is issued, whatever the parameters and the provider's state.
C24_CheckModeReadOnly ==
    params.check_mode =>
        /\ Mutating(calls) = {}
        /\ \A i \in 1..Len(calls) : calls[i] = Describe

C24_Witness ==
    /\ params.check_mode /\ Finished
    /\ result.kind = "exit" /\ result.changed
    /\ new_ingress(loc) # {}
    /\ calls # <<>>

\* C26: within one invocation at most one create call is issued for each
\* dependency group name: a later rule naming a group that an earlier rule
\* caused to be created resolves to that group without another create call.
CreatesOf(group_name) ==
    {i \in CallsOf("create_security_group") : calls[i].names = {group_name}}

C26_OneCreatePerDependency ==
    \A group_name \in {"dep"} : Cardinality(CreatesOf(group_name)) <= 1

\* C27 (as claimed): when the provider's group holds exactly the permissions
\* of the desired ingress and egress rules, wait_for_rule_propagation finds
\* the match the first time it tests a describe result that shows them: it
\* goes on to sleep only after a describe result that did not show the
\* provider's rules, and it does not fail.
ProviderStored(l) ==
    IF l.rule_key = "IpPermissionsEgress"
    THEN remote.group.IpPermissionsEgress ELSE remote.group.IpPermissions

HoldsExactlyDesired ==
    /\ remote.group.IpPermissions = rules_to_permissions(Range(loc.named_tuple_ingress_list))
    /\ remote.group.VpcId # None =>
           remote.group.IpPermissionsEgress =
               rules_to_permissions(Range(loc.named_tuple_egress_list))

C27_MatchRecognised ==
    HoldsExactlyDesired =>
        /\ pc = "await_sleep" => AwaitStored(loc) # ProviderStored(loc)
        /\ ~(Finished /\ result.why = "timeout" /\ loc.current_rules = RulesOfPermissions(ProviderStored(loc)))

\* C22: with state absent/terminated no instance under termination protection
\* is ever terminated, and a finished invocation whose filters match such an
\* instance has failed with the instance in terminate_failed.
Protected(id) ==
    remote.instances[id].exists /\ remote.instances[id].DisableApiTermination

C22_ProtectedNotTerminated ==
    params.state \in {"absent", "terminated"} =>
        /\ \A id \in DOMAIN remote.instances :
               Protected(id) => remote.instances[id].State # "terminated"
        /\ Finished =>
               \A id \in find_instances(remote, {}, Filters(params)) :
                   Protected(id) => result.kind = "fail" /\ id \in result.failed

C22_Witness ==
    /\ Finished /\ params.state = "absent"
    /\ result.kind = "fail"
    /\ \E id \in result.failed : Protected(id) /\ remote.instances[id].State = "running"
    /\ \E id \in result.success : remote.instances[id].State = "terminated"
    /\ \E i \in 1..Len(calls) : calls[i].op = "terminate_instances" /\ Protected(CHOOSE id \in calls[i].names : TRUE)

\* C23 (as claimed): with purge_tags false no delete_tags call is issued; with
\* purge_tags true and a state other than absent/terminated, a run over
\* matching (tagged) instances that met no provider error did not end in an
\* exception, and the tags of every matching instance are the tags of the task.
SpecifiedTags == IF params.tags.none THEN EmptyTags ELSE params.tags.d

MatchedIds == {loc.existing_matches[i].InstanceId : i \in 1..Len(loc.existing_matches)}

AllMatchesTagged ==
    \A i \in 1..Len(loc.existing_matches) : loc.existing_matches[i].Tags # None

C23_PurgeTags ==
    /\ ~params.purge_tags => \A i \in 1..Len(calls) : calls[i].op # "delete_tags"
    /\ (/\ params.purge_tags /\ params.state \notin {"absent", "terminated"}
        /\ Finished /\ result.why # "remote"
        /\ loc.existing_matches # <<>> /\ AllMatchesTagged)
       => /\ result.why # "exception"
          /\ \A id \in MatchedIds : remote.instances[id].Tags = Some(SpecifiedTags)

\* C25 (as claimed): in check mode no mutating call is issued, for any state
\* and any set of matching instances.
InstanceMutating(log) == {i \in 1..Len(log) : log[i].op \in InstanceMutatingOps}

C25_InstanceCheckMode ==
    params.check_mode => InstanceMutating(calls) = {}

\* C28 (as claimed): each call of change_instance_state splits the matched
\* ids into changed and change_failed, an id is in changed only after its
\* call succeeded, and ensure_instance_state fails when a change_failed list
\* was not empty and else reports changed = (the changed set is not empty).
IsPartition(ret) ==
    /\ ret.changed \cap ret.change_failed = {}
    /\ ret.changed \cup ret.change_failed = ret.to_change

C28_ChangePartition ==
    /\ pc = "change" =>
          /\ loc.changed_ids \subseteq loc.to_change
          /\ \A id \in loc.changed_ids :
                remote.instances[id].State = StateAfter(ChangeOp(loc.desired_state))
    /\ \A i \in 1..Len(loc.returns) : IsPartition(loc.returns[i])
    /\ (/\ Finished /\ params.state \notin {"present", "running", "started"}
        /\ loc.returns # <<>> /\ result.why # "exception")
       => IF \E i \in 1..Len(loc.returns) : loc.returns[i].change_failed # {}
          THEN result.kind = "fail"
          ELSE /\ result.kind = "exit"
               /\ result.changed = (loc.returns[Len(loc.returns)].changed # {})

\* C29 (as claimed): for state restarted/rebooted every stop call comes before
\* every start call and each instance matched by the filters got its stop call
\* before the first start call; start calls go to matched instances only; an
\* instance whose stop call failed is not counted as restarted and makes the
\* invocation fail.
InstanceCalls(op) == {i \in 1..Len(calls) : calls[i].op = op}

StopFailed == IF loc.returns = <<>> THEN {} ELSE loc.returns[1].change_failed

C29_RestartOrder ==
    params.state \in {"restarted", "rebooted"} =>
        /\ \A i \in InstanceCalls("stop_instances"), j \in InstanceCalls("start_instances") : i < j
        /\ InstanceCalls("start_instances") # {} =>
               \A id \in MatchedIds :
                   \E i \in InstanceCalls("stop_instances") : calls[i].names = {id}
        /\ \A j \in InstanceCalls("start_instances") : calls[j].names \subseteq MatchedIds
        /\ Finished =>
               \A id \in StopFailed : id \notin result.success /\ result.kind = "fail"

\* C30: run_instances is called at most once in an invocation, with
\* MinCount = MaxCount = 1, only for state present/running/started and with
\* no existing match; with a match no instance is launched; for the other
\* states with no match the invocation exits with changed=false and has
\* issued no mutating call.
C30_LaunchOnce ==
    /\ Cardinality(InstanceCalls("run_instances")) <= 1
    /\ \A i \in InstanceCalls("run_instances") :
          /\ calls[i].tags.MinCount = 1 /\ calls[i].tags.MaxCount = 1
          /\ params.state \in {"present", "running", "started"}
          /\ loc.existing_matches = <<>>
    /\ loc.existing_matches # <<>> =>
          /\ InstanceCalls("run_instances") = {}
          /\ ~remote.instances[NewInstanceId].exists
    /\ (/\ Finished /\ loc.existing_matches = <<>>
        /\ params.state \in {"stopped", "restarted", "rebooted", "absent", "terminated"})
       => /\ result.kind = "exit" /\ ~result.changed
          /\ InstanceMutating(calls) = {}

C30_Witness ==
    /\ Finished /\ result.kind = "exit" /\ result.changed
    /\ InstanceCalls("run_instances") # {}
    /\ remote.instances[NewInstanceId].exists
    /\ \E id \in InstanceIds : remote.instances[id].exists

====
